---------------------------- MODULE Spec2Model ----------------------------
(***************************************************************************)
(* Model of the plank parser (plank-syntax/src/parser.rs).                 *)
(*                                                                         *)
(* The parser is a deterministic recursive-descent / Pratt parser over a   *)
(* token vector.  Every method of `Parser` is an operator that takes the   *)
(* parser state p (a record of the struct's fields) and returns either the *)
(* new state or a result record [p, ok, v] (ParseResult<T>: ok is Ok/Err). *)
(* The program loop of parse_program is the state machine: one action per  *)
(* branch of the loop body.                                                *)
(*                                                                         *)
(* p.panic records a reached panic!/expect()/assert! (the code aborts), or *)
(* a loop iteration that would repeat forever; p.log is a history of the   *)
(* calls the properties speak about.                                       *)
(***************************************************************************)
EXTENDS Integers, Sequences, FiniteSets, TLC

VARIABLES input, p, program, pc

vars == <<input, p, program, pc>>

None == [none |-> TRUE]

-----------------------------------------------------------------------------
(* Tokens (tokens.rs is not part of the sources at hand: the alphabet is   *)
(* the one the parser names and spec.md section 6 lists).                  *)

Keywords ==
    {"Struct", "Extern", "Fn", "If", "Else", "Loop", "While", "Break",
     "Continue", "Return", "Let", "I8", "U8", "I16", "U16", "I32", "U32",
     "KwBool"}

Punctuation ==
    {"LeftParen", "RightParen", "LeftBrace", "RightBrace", "LeftBracket",
     "RightBracket", "Comma", "Dot", "Colon", "Semicolon", "DoubleColon",
     "Arrow", "Underscore", "Less", "LessEqual", "Greater", "GreaterEqual",
     "Equal", "NotEqual", "Assign", "Plus", "Minus", "Star", "Slash",
     "Percent", "Ampersand", "And", "Or", "Not"}

LiteralTokens == {"Number", "Bool", "Char", "Str"}

\* Token::kind(): value-carrying variants collapse to their kind.
Kind(t) ==
    IF t \in LiteralTokens THEN "Literal" ELSE t

TokenKinds == Keywords \cup Punctuation \cup {"Ident", "Literal", "BuiltinType", "Error"}

\* TokenKind::can_start_expression
can_start_expression(k) ==
    k \in {"Literal", "Ident", "Ampersand", "Plus", "Minus", "Star", "Not", "LeftParen"}

BinaryOperatorTokens ==
    {"And", "Or", "Plus", "Minus", "Star", "Slash", "Percent", "Less",
     "LessEqual", "Greater", "GreaterEqual", "Equal", "NotEqual", "Assign"}

\* TokenKind::is_operator
is_operator(k) ==
    k \in BinaryOperatorTokens \cup {"Ampersand", "Not"}

\* Display of an Expectation, as the character codes of the rendered text
\* (a token is rendered as its lexeme between backquotes).
ExpectationText ==
  [ Struct         |-> <<96, 115, 116, 114, 117, 99, 116, 96>>,
    Extern         |-> <<96, 101, 120, 116, 101, 114, 110, 96>>,
    Fn             |-> <<96, 102, 110, 96>>,
    If             |-> <<96, 105, 102, 96>>,
    Else           |-> <<96, 101, 108, 115, 101, 96>>,
    Loop           |-> <<96, 108, 111, 111, 112, 96>>,
    While          |-> <<96, 119, 104, 105, 108, 101, 96>>,
    Break          |-> <<96, 98, 114, 101, 97, 107, 96>>,
    Continue       |-> <<96, 99, 111, 110, 116, 105, 110, 117, 101, 96>>,
    Return         |-> <<96, 114, 101, 116, 117, 114, 110, 96>>,
    Let            |-> <<96, 108, 101, 116, 96>>,
    I8             |-> <<96, 105, 56, 96>>,
    U8             |-> <<96, 117, 56, 96>>,
    I16            |-> <<96, 105, 49, 54, 96>>,
    U16            |-> <<96, 117, 49, 54, 96>>,
    I32            |-> <<96, 105, 51, 50, 96>>,
    U32            |-> <<96, 117, 51, 50, 96>>,
    KwBool         |-> <<96, 98, 111, 111, 108, 96>>,
    LeftParen      |-> <<96, 40, 96>>,
    RightParen     |-> <<96, 41, 96>>,
    LeftBrace      |-> <<96, 123, 96>>,
    RightBrace     |-> <<96, 125, 96>>,
    LeftBracket    |-> <<96, 91, 96>>,
    RightBracket   |-> <<96, 93, 96>>,
    Comma          |-> <<96, 44, 96>>,
    Dot            |-> <<96, 46, 96>>,
    Colon          |-> <<96, 58, 96>>,
    Semicolon      |-> <<96, 59, 96>>,
    DoubleColon    |-> <<96, 58, 58, 96>>,
    Arrow          |-> <<96, 45, 62, 96>>,
    Underscore     |-> <<96, 95, 96>>,
    Less           |-> <<96, 60, 96>>,
    LessEqual      |-> <<96, 60, 61, 96>>,
    Greater        |-> <<96, 62, 96>>,
    GreaterEqual   |-> <<96, 62, 61, 96>>,
    Equal          |-> <<96, 61, 61, 96>>,
    NotEqual       |-> <<96, 33, 61, 96>>,
    Assign         |-> <<96, 61, 96>>,
    Plus           |-> <<96, 43, 96>>,
    Minus          |-> <<96, 45, 96>>,
    Star           |-> <<96, 42, 96>>,
    Slash          |-> <<96, 47, 96>>,
    Percent        |-> <<96, 37, 96>>,
    Ampersand      |-> <<96, 38, 96>>,
    And            |-> <<96, 38, 38, 96>>,
    Or             |-> <<96, 124, 124, 96>>,
    Not            |-> <<96, 33, 96>>,
    Ident          |-> <<105, 100, 101, 110, 116, 105, 102, 105, 101, 114>>,
    Literal        |-> <<108, 105, 116, 101, 114, 97, 108>>,
    BuiltinType    |-> <<98, 117, 105, 108, 116, 105, 110, 32, 116, 121, 112, 101>>,
    Error          |-> <<101, 114, 114, 111, 114>>,
    expression     |-> <<101, 120, 112, 114, 101, 115, 115, 105, 111, 110>>,
    operator       |-> <<111, 112, 101, 114, 97, 116, 111, 114>> ]

\* Ord for str: byte-wise lexicographic order.
RECURSIVE StrLess(_, _)
StrLess(a, b) ==
    IF b = <<>> THEN FALSE
    ELSE IF a = <<>> THEN TRUE
    ELSE IF Head(a) # Head(b) THEN Head(a) < Head(b)
    ELSE StrLess(Tail(a), Tail(b))

-----------------------------------------------------------------------------
(* Position and Span (plank-errors; spec.md section 3).                    *)

Position(line, column) == [line |-> line, column |-> column]

forward(pos, n) == [pos EXCEPT !.column = @ + n]

span_to(a, b) == [start |-> a, end |-> b]

PosLeq(a, b) == a.line < b.line \/ (a.line = b.line /\ a.column <= b.column)

merge(a, b) ==
    [start |-> IF PosLeq(a.start, b.start) THEN a.start ELSE b.start,
     end   |-> IF PosLeq(a.end, b.end) THEN b.end ELSE a.end]

-----------------------------------------------------------------------------
(* Token vectors handed to parse()                                         *)

IdentNames ==
    {"a", "b", "c", "d", "e", "f", "g", "x", "y", "z", "foo", "name", "id", "P", "T"}

NumberLiterals == {"1", "2", "9"}

\* A token without its span: identifiers and literals carry a value.
Tok(s) ==
    IF s \in IdentNames THEN [t |-> "Ident", v |-> s]
    ELSE IF s \in NumberLiterals THEN [t |-> "Number", v |-> s]
    ELSE IF s \in {"true", "false"} THEN [t |-> "Bool", v |-> s]
    ELSE IF s = "'c'" THEN [t |-> "Char", v |-> s]
    ELSE IF s = "str" THEN [t |-> "Str", v |-> s]
    ELSE [t |-> s, v |-> ""]

Toks(names) == [i \in 1..Len(names) |-> Tok(names[i])]

\* Well-formed programs and the two erroneous scenarios of spec.md section 8.
SeedStruct ==
    <<"Struct", "P", "Less", "T", "Greater", "LeftBrace", "x", "Colon", "T", "Comma",
      "y", "Colon", "Star", "I32", "Comma", "RightBrace">>

SeedTurbofish ==
    <<"Fn", "id", "Less", "T", "Greater", "LeftParen", "x", "Colon", "T", "RightParen",
      "Arrow", "T", "LeftBrace", "Return", "f", "DoubleColon", "Less", "I32", "Greater",
      "LeftParen", "x", "RightParen", "Semicolon", "RightBrace">>

SeedPrecedence ==
    <<"Fn", "f", "LeftParen", "RightParen", "Arrow", "I32", "LeftBrace",
      "a", "Assign", "b", "Assign", "c", "Plus", "d", "Star", "e", "Less", "f",
      "Semicolon", "RightBrace">>

SeedNamedArguments ==
    <<"Fn", "f", "LeftParen", "RightParen", "Arrow", "I32", "LeftBrace",
      "foo", "LeftParen", "x", "Comma", "name", "Colon", "1", "Plus", "2", "Comma", "y",
      "RightParen", "Semicolon", "RightBrace">>

SeedMissingSemicolon ==
    <<"Fn", "f", "LeftParen", "RightParen", "Arrow", "I32", "LeftBrace",
      "Return", "1", "RightBrace">>

SeedUnclosed ==
    <<"Fn", "f", "LeftParen", "RightParen", "Arrow", "I32", "LeftBrace",
      "g", "LeftParen", "1", "Comma", "2", "RightBrace">>

SeedExtern ==
    <<"Extern", "Fn", "f", "LeftParen", "c", "Colon", "U8", "RightParen", "Arrow",
      "KwBool", "Semicolon",
      "Fn", "g", "LeftParen", "RightParen", "Arrow", "Underscore", "LeftBrace",
      "RightBrace">>

SeedStatements ==
    <<"Fn", "f", "LeftParen", "RightParen", "Arrow", "I32", "LeftBrace",
      "Let", "x", "Colon", "U8", "Assign", "1", "Semicolon",
      "If", "x", "LeftBrace", "Break", "Semicolon", "RightBrace",
      "Else", "LeftBrace", "Continue", "Semicolon", "RightBrace", "RightBrace">>

SeedLoops ==
    <<"Fn", "f", "LeftParen", "g", "Colon", "Fn", "LeftParen", "I32", "RightParen",
      "Arrow", "I32", "RightParen", "Arrow", "I32", "LeftBrace",
      "Loop", "LeftBrace", "RightBrace",
      "While", "Not", "x", "LeftBrace",
      "LeftParen", "x", "RightParen", "Dot", "y", "Semicolon", "RightBrace",
      "RightBrace">>

SeedGeneric ==
    <<"Struct", "g", "LeftBrace", "x", "Colon", "P", "Less", "T", "Comma", "Star",
      "I32", "Greater", "Comma", "RightBrace">>

Seeds ==
    {SeedStruct, SeedTurbofish, SeedPrecedence, SeedNamedArguments,
     SeedMissingSemicolon, SeedUnclosed, SeedExtern, SeedStatements, SeedLoops,
     SeedGeneric}

\* `a op1 b op2 c ;` as a function body, for every pair of binary operators.
PrecedenceInputs ==
    {<<"Fn", "f", "LeftParen", "RightParen", "Arrow", "I32", "LeftBrace",
       "a", op1, "b", op2, "c", "Semicolon", "RightBrace">> :
         op1 \in BinaryOperatorTokens, op2 \in BinaryOperatorTokens}

\* One token of every kind the lexer produces.
Alphabet ==
    Keywords \cup Punctuation \cup {"z", "9", "true", "'c'", "str", "Error"}

\* How many tokens of a seed an edit may drop.
MaxSkip == 1

\* An edit of a seed at cut i: at most one token is inserted and the next
\* skip tokens are dropped, or the input ends at the cut (rest = TRUE).  brk
\* is the index of the last token of line 1 (0: the whole input is on line
\* 1): the line may break at the cut.
EditsAt(seed, i) ==
    {[names |-> SubSeq(seed, 1, i) \o x[1]
                  \o (IF x[3] THEN <<>> ELSE SubSeq(seed, i + 1 + x[2], Len(seed))),
      brk |-> x[4]] :
        x \in {y \in ({<<>>} \cup {<<a>> : a \in Alphabet}) \X (0..MaxSkip) \X BOOLEAN
                       \X {0, i} :
                  y[3] => (y[2] = 0 /\ y[1] = <<>>)}}

\* The seeds that begin like SeedMissingSemicolon are edited in their bodies,
\* SeedGeneric in its field.
FirstCut(seed) ==
    IF seed \in {SeedPrecedence, SeedNamedArguments, SeedUnclosed, SeedStatements}
    THEN 7
    ELSE IF seed = SeedGeneric THEN 5 ELSE 0

\* The lexer's spans: one column per token, one column between tokens;
\* line numbers never decrease.
Spanned(in, i) ==
    LET line == IF in.brk > 0 /\ i > in.brk THEN 2 ELSE 1
        col  == IF line = 2 THEN 2 * (i - in.brk) - 1 ELSE 2 * i - 1
    IN  [t |-> Tok(in.names[i]).t, v |-> Tok(in.names[i]).v,
         span |-> span_to(Position(line, col), Position(line, col + 1))]

-----------------------------------------------------------------------------
(* ParseResult<T>                                                          *)

Ok(q, v) == [p |-> q, ok |-> TRUE, v |-> v]

Err(q) == [p |-> q, ok |-> FALSE, v |-> None]

Panic(q, why) == [q EXCEPT !.panic = IF @ = "none" THEN why ELSE @]

Aborted(q) == q.panic # "none"

\* History of the calls made so far: name, state before and after, result.
\* consume, emit_error, expect_semicolon, expect_closing, the two
\* synchronizations and the setting of last_line_completed are recorded at
\* every call; expect, consume_ident and pratt_parse where
\* they return after emit_error.
Traced(name, q0, x, extra) ==
    LET r == x IN
    [r EXCEPT !.p.log = Append(@,
        [ev |-> name, pos0 |-> q0.pos, pos1 |-> r.p.pos,
         nerr0 |-> Len(q0.errors), nerr1 |-> Len(r.p.errors),
         ok |-> r.ok, extra |-> extra])]

\* self.last_line_completed = true, at the top of the program loop, before
\* a struct field or at the start of a statement.
set_last_line_completed(q, boundary) ==
    Traced("last_line_completed", q,
           Ok([q EXCEPT !.last_line_completed = TRUE], None), boundary).p

-----------------------------------------------------------------------------
(* Parser: token cursor                                                    *)

RECURSIVE Call(_, _)

\* Parser::new: next_token is the front of the vector, nothing consumed yet.
ParserNew ==
    [pos |-> 1, prev_span |-> None, expected |-> {}, expected2 |-> {},
     last_line_completed |-> FALSE, errors |-> <<>>, panic |-> "none",
     log |-> <<>>]

\* tokens: the vector parse() was given; q.pos is the index of next_token,
\* the deque `tokens` holds what follows it.
next_token(q) == IF q.pos <= Len(input.names) THEN Spanned(input, q.pos) ELSE None

peek(q) == IF q.pos <= Len(input.names) THEN Tok(input.names[q.pos]).t ELSE "None"

peek2(q) == IF q.pos + 1 <= Len(input.names) THEN Tok(input.names[q.pos + 1]).t ELSE "None"

is_at_end(q) == next_token(q) = None

peek_span(q) ==
    IF next_token(q) # None THEN next_token(q).span
    ELSE IF q.prev_span # None
         THEN span_to(forward(q.prev_span.end, 1), forward(forward(q.prev_span.end, 1), 1))
         ELSE span_to(Position(1, 1), Position(1, 2))

\* What consume found and what it left: the two expected-sets and the flag.
ConsumeContext(q, q1) ==
    [expected |-> q.expected, expected2 |-> q.expected2,
     last_line_completed |-> q.last_line_completed,
     expected_after |-> q1.expected, expected2_after |-> q1.expected2,
     last_line_completed_after |-> q1.last_line_completed]

\* consume that keeps the expected-set
consume_keeping_expected(q) ==
    LET q1 == [q EXCEPT !.last_line_completed = FALSE] IN
    LET r == IF next_token(q) # None
             THEN Ok([q1 EXCEPT !.expected = @ \cup q.expected2,
                                !.expected2 = {},
                                !.pos = @ + 1,
                                !.prev_span = next_token(q).span],
                     next_token(q))
             ELSE Err(q1)
    IN  Traced("consume", q, r, ConsumeContext(q, r.p))

consume(q) ==
    LET q1 == [q EXCEPT !.last_line_completed = FALSE] IN
    LET r == IF next_token(q) # None
             THEN Ok([q1 EXCEPT !.expected = q.expected2,
                                !.expected2 = {},
                                !.pos = @ + 1,
                                !.prev_span = next_token(q).span],
                     next_token(q))
             ELSE Err(q1)
    IN  Traced("consume", q, r, ConsumeContext(q, r.p))

\* consume().expect(..): an Err aborts.
consume_expect(q) ==
    LET r == Call("consume", <<q>>) IN
    IF r.ok THEN r ELSE Err(Panic(r.p, "token disappeared"))

\* check that forgets to record what it looked for
check_unrecorded(q, tok) ==
    IF peek(q) = tok
    THEN (LET r == Call("consume_expect", <<q>>) IN [p |-> r.p, ok |-> r.ok, v |-> None])
    ELSE Err(q)

check(q, tok) ==
    LET q1 == [q EXCEPT !.expected = @ \cup {Kind(tok)}] IN
    IF peek(q1) = tok
    THEN (LET r == Call("consume_expect", <<q1>>) IN [p |-> r.p, ok |-> r.ok, v |-> None])
    ELSE Err(q1)

-----------------------------------------------------------------------------
(* Parser: diagnostics                                                     *)

IsTokenExpectation(e) == e \notin {"expression", "operator"}

\* Vec<String>::sort of the rendered expectations.
RECURSIVE SortedTexts(_)
SortedTexts(S) ==
    IF S = {} THEN <<>>
    ELSE LET m == CHOOSE x \in S :
                    \A y \in S \ {x} : StrLess(ExpectationText[x], ExpectationText[y])
         IN <<m>> \o SortedTexts(S \ {m})

\* "expected X" | "expected X or Y" | "expected one of X, Y, Z"
ExpectedMessage(expected) ==
    [form |-> IF Len(expected) = 1 THEN "expected"
              ELSE IF Len(expected) = 2 THEN "expected or"
              ELSE "expected one of",
     items |-> expected]

RetainExpression(S) ==
    IF "expression" \in S
    THEN {e \in S : IF IsTokenExpectation(e) THEN ~can_start_expression(e) ELSE TRUE}
    ELSE S

\* the retain that keeps the operator tokens instead (a dropped `!`)
RetainOperator_kept(S) ==
    IF "operator" \in S
    THEN {e \in S : IF IsTokenExpectation(e) THEN is_operator(e) ELSE TRUE}
    ELSE S

RetainOperator(S) ==
    IF "operator" \in S
    THEN {e \in S : IF IsTokenExpectation(e) THEN ~is_operator(e) ELSE TRUE}
    ELSE S

\* the off-the-end hint tried before the helper
SecondaryNote_hint_first(q, helper, expected) ==
    IF /\ ~q.last_line_completed
       /\ q.prev_span # None
       /\ q.prev_span.end.line < peek_span(q).start.line
    THEN <<[span |-> span_to(forward(q.prev_span.end, 1), forward(q.prev_span.end, 2)),
            msg |-> expected]>>
    ELSE IF helper # None
         THEN <<[span |-> helper.span, msg |-> helper.msg]>>
         ELSE <<>>

\* The secondary note of an error: the helper, the off-the-end hint, or none.
SecondaryNote(q, helper, expected) ==
    IF helper # None
    THEN <<[span |-> helper.span, msg |-> helper.msg]>>
    ELSE IF /\ ~q.last_line_completed
            /\ q.prev_span # None
            /\ q.prev_span.end.line < peek_span(q).start.line
         THEN <<[span |-> span_to(forward(q.prev_span.end, 1), forward(q.prev_span.end, 2)),
                 msg |-> expected]>>
         ELSE <<>>

\* What emit_error was called with.
EmitContext(q, helper) ==
    [helper |-> helper, expected |-> q.expected, expected2 |-> q.expected2,
     prev_span |-> q.prev_span, last_line_completed |-> q.last_line_completed]

\* the lexer's Error token reported like any other
emit_error_unsuppressed(q, helper) ==
    LET retained == RetainOperator(RetainExpression(q.expected)) IN
    LET q1 == [q EXCEPT !.expected = retained] IN
    LET expected == SortedTexts(retained) IN
    LET got == IF peek(q) = "None" THEN "end of input" ELSE peek(q) IN
    LET span == peek_span(q) IN
    Traced("emit_error", q,
           Ok(IF Len(expected) = 0
              THEN Panic(q1, "no tokens expected")
              ELSE [q1 EXCEPT !.errors = Append(@,
                      [message |-> [expected |-> ExpectedMessage(expected), got |-> got],
                       span |-> span,
                       notes |-> <<[span |-> span, msg |-> <<"unexpected", got>>]>>
                                 \o SecondaryNote(q1, helper, ExpectedMessage(expected))])],
              None),
           EmitContext(q, helper)).p

\* the new diagnostic put in front of the earlier ones
emit_error_in_front(q, helper) ==
    IF peek(q) = "Error"
    THEN Traced("emit_error", q, Ok(q, None), EmitContext(q, helper)).p
    ELSE LET retained == RetainOperator(RetainExpression(q.expected)) IN
         LET q1 == [q EXCEPT !.expected = retained] IN
         LET expected == SortedTexts(retained) IN
         LET got == IF peek(q) = "None" THEN "end of input" ELSE peek(q) IN
         LET span == peek_span(q) IN
         Traced("emit_error", q,
                Ok(IF Len(expected) = 0
                   THEN Panic(q1, "no tokens expected")
                   ELSE [q1 EXCEPT !.errors = <<
                           [message |-> [expected |-> ExpectedMessage(expected), got |-> got],
                            span |-> span,
                            notes |-> <<[span |-> span, msg |-> <<"unexpected", got>>]>>
                                      \o SecondaryNote(q1, helper, ExpectedMessage(expected))]>>
                           \o @],
                   None),
                EmitContext(q, helper)).p

emit_error(q, helper) ==
    IF peek(q) = "Error"
    THEN Traced("emit_error", q, Ok(q, None), EmitContext(q, helper)).p
    ELSE LET retained == RetainOperator(RetainExpression(q.expected)) IN
         LET q1 == [q EXCEPT !.expected = retained] IN
         LET expected == SortedTexts(retained) IN
         LET got == IF peek(q) = "None" THEN "end of input" ELSE peek(q) IN
         LET span == peek_span(q) IN
         Traced("emit_error", q,
                Ok(IF Len(expected) = 0
                   THEN Panic(q1, "no tokens expected")
                   ELSE [q1 EXCEPT !.errors = Append(@,
                           [message |-> [expected |-> ExpectedMessage(expected), got |-> got],
                            span |-> span,
                            notes |-> <<[span |-> span, msg |-> <<"unexpected", got>>]>>
                                      \o SecondaryNote(q1, helper, ExpectedMessage(expected))])],
                   None),
                EmitContext(q, helper)).p

\* the soft case taken on the same line as well (>= for >)
expect_semicolon_same_line(q) ==
    LET c == Call("check", <<q, "Semicolon">>) IN
    IF c.ok THEN Traced("expect_semicolon", q, Ok(c.p, None), None)
    ELSE LET q1 == c.p
             tok == next_token(q1)
             soft == /\ q1.prev_span # None
                     /\ tok # None
                     /\ tok.span.start.line >= q1.prev_span.end.line
             helper == IF soft
                       THEN [span |-> span_to(q1.prev_span.end, forward(q1.prev_span.end, 1)),
                             msg |-> "maybe you missed a ';'?"]
                       ELSE None
             q2 == Call("emit_error", <<q1, helper>>)
         IN Traced("expect_semicolon", q,
                   IF soft /\ ~Aborted(q2) THEN Ok(q2, None) ELSE Err(q2), None)

\* (the note's backquotes are written as apostrophes)
expect_semicolon(q) ==
    LET c == Call("check", <<q, "Semicolon">>) IN
    IF c.ok THEN Traced("expect_semicolon", q, Ok(c.p, None), None)
    ELSE LET q1 == c.p
             tok == next_token(q1)
             soft == /\ q1.prev_span # None
                     /\ tok # None
                     /\ tok.span.start.line > q1.prev_span.end.line
             helper == IF soft
                       THEN [span |-> span_to(q1.prev_span.end, forward(q1.prev_span.end, 1)),
                             msg |-> "maybe you missed a ';'?"]
                       ELSE None
             q2 == Call("emit_error", <<q1, helper>>)
         IN IF /\ q1.prev_span # None
               /\ tok # None
               /\ ~(q1.prev_span.end.line <= tok.span.start.line)
            THEN Err(Panic(q1, "assertion failed: prev_line <= next_line"))
            ELSE Traced("expect_semicolon", q,
                        IF soft /\ ~Aborted(q2) THEN Ok(q2, None) ELSE Err(q2), None)

\* expect_closing that reports like expect, without the opener
expect_closing_plain(q, tok, opener) ==
    LET c == Call("check", <<q, tok>>) IN
    Traced("expect_closing", q,
        IF c.ok THEN Ok(c.p, None)
        ELSE Err(Call("emit_error", <<c.p, None>>)),
        [opener |-> opener])

expect_closing(q, tok, opener) ==
    LET c == Call("check", <<q, tok>>) IN
    Traced("expect_closing", q,
        IF c.ok THEN Ok(c.p, None)
        ELSE Err(Call("emit_error", <<c.p, [span |-> opener, msg |-> "unclosed delimiter"]>>)),
        [opener |-> opener])

\* prev_span.expect("no previous token")
previous_span(q) ==
    IF q.prev_span # None THEN Ok(q, q.prev_span)
    ELSE Err(Panic(q, "no previous token"))

expect(q, tok) ==
    LET c == Call("check", <<q, tok>>) IN
    IF c.ok THEN Ok(c.p, None)
    ELSE Traced("expect", q, Err(Call("emit_error", <<c.p, None>>)), None)

\* Option<Spanned<Ident>>: ok is Some.
check_ident(q) ==
    LET q1 == [q EXCEPT !.expected = @ \cup {"Ident"}] IN
    IF peek(q1) # "Ident" THEN Err(q1)
    ELSE LET r == Call("consume", <<q1>>) IN
         IF r.ok THEN Ok(r.p, [value |-> r.v.v, span |-> r.v.span])
         ELSE Err(Panic(r.p, "unreachable"))

consume_ident(q) ==
    LET r == Call("check_ident", <<q>>) IN
    IF r.ok THEN r
    ELSE Traced("consume_ident", q, Err(Call("emit_error", <<r.p, None>>)), None)

-----------------------------------------------------------------------------
(* Parser: panic-mode synchronization                                      *)

\* One iteration of a loop ran from q0 to q1; an iteration that goes round
\* again without having consumed anything repeats forever.
LoopIteration(name, q0, x1, exits) ==
    LET q1 == x1 IN
    LET q2 == [q1 EXCEPT !.log = Append(@,
                 [ev |-> "iteration", loop |-> name, pos0 |-> q0.pos,
                  pos1 |-> q1.pos, exits |-> exits])] IN
    IF ~exits /\ q1.pos = q0.pos THEN Panic(q2, "diverges") ELSE q2

\* every `fn` taken as the start of an item, whatever follows it
synchronize_item_loop_any_fn(q) ==
    IF Aborted(q) THEN q
    ELSE IF peek(q) \in {"Struct", "Extern", "None", "Fn"}
    THEN LoopIteration("synchronize_item", q, q, TRUE)
    ELSE LET q1 == LoopIteration("synchronize_item", q,
                                 Call("consume_expect", <<q>>).p, FALSE)
         IN  Call("synchronize_item_loop", <<q1>>)

synchronize_item_loop(q) ==
    IF Aborted(q) THEN q
    ELSE IF peek(q) \in {"Struct", "Extern", "None"}
    THEN LoopIteration("synchronize_item", q, q, TRUE)
    ELSE IF peek(q) = "Fn" /\ peek2(q) = "Ident"
    THEN LoopIteration("synchronize_item", q, q, TRUE)
    ELSE LET q1 == LoopIteration("synchronize_item", q,
                                 Call("consume_expect", <<q>>).p, FALSE)
         IN  Call("synchronize_item_loop", <<q1>>)

synchronize_item(q) ==
    Traced("synchronize_item", q, Ok(Call("synchronize_item_loop", <<q>>), None), None).p

\* `else` made a stopping token as well
StatementStartsWithElse ==
    {"If", "Loop", "While", "Break", "Continue", "Let", "Return",
     "LeftBrace", "RightBrace", "Else"}

\* The tokens synchronize_statement stops at with Ok(()).
StatementStarts ==
    {"If", "Loop", "While", "Break", "Continue", "Let", "Return",
     "LeftBrace", "RightBrace"}

synchronize_statement_loop(q) ==
    IF Aborted(q) THEN Err(q)
    ELSE IF peek(q) \in StatementStarts
    THEN Ok(LoopIteration("synchronize_statement", q, q, TRUE), None)
    ELSE IF peek(q) = "Fn" /\ peek2(q) = "Ident"
    THEN Err(LoopIteration("synchronize_statement", q, q, TRUE))
    ELSE IF peek(q) \in {"Struct", "None"}
    THEN Err(LoopIteration("synchronize_statement", q, q, TRUE))
    ELSE LET c == Call("check", <<q, "Semicolon">>) IN
         IF c.ok
         THEN Ok(LoopIteration("synchronize_statement", q, c.p, TRUE), None)
         ELSE LET q1 == LoopIteration("synchronize_statement", q,
                                      Call("consume_expect", <<c.p>>).p, FALSE)
              IN  Call("synchronize_statement_loop", <<q1>>)

synchronize_statement(q) ==
    Traced("synchronize_statement", q, Call("synchronize_statement_loop", <<q>>), None)

-----------------------------------------------------------------------------
(* Parser: items and types                                                 *)

\* while self.check(Comma) { type_params.push(self.consume_ident()?) }
parse_item_name_loop(q, type_params) ==
    LET c == Call("check", <<q, "Comma">>) IN
    IF ~c.ok THEN Ok(c.p, type_params)
    ELSE LET r == Call("consume_ident", <<c.p>>) IN
         IF ~r.ok THEN Err(r.p)
         ELSE Call("parse_item_name_loop", <<r.p, Append(type_params, r.v)>>)

parse_item_name(q) ==
    LET name == Call("consume_ident", <<q>>) IN
    IF ~name.ok THEN Err(name.p) ELSE
    LET c == Call("check", <<name.p, "Less">>) IN
    IF ~c.ok THEN Ok(c.p, [name |-> name.v, type_params |-> <<>>]) ELSE
    LET first == Call("consume_ident", <<c.p>>) IN
    IF ~first.ok THEN Err(first.p) ELSE
    LET rest == Call("parse_item_name_loop", <<first.p, <<first.v>>>>) IN
    IF ~rest.ok THEN Err(rest.p) ELSE
    LET g == Call("expect", <<rest.p, "Greater">>) IN
    IF ~g.ok THEN Err(g.p) ELSE
    Ok(g.p, [name |-> name.v, type_params |-> rest.v])

parse_type_params_loop(q, types) ==
    LET c == Call("check", <<q, "Comma">>) IN
    IF ~c.ok THEN Ok(c.p, types)
    ELSE LET r == Call("parse_type", <<c.p>>) IN
         IF ~r.ok THEN Err(r.p)
         ELSE Call("parse_type_params_loop", <<r.p, Append(types, r.v)>>)

parse_type_params(q) ==
    LET first == Call("parse_type", <<q>>) IN
    IF ~first.ok THEN Err(first.p)
    ELSE Call("parse_type_params_loop", <<first.p, <<first.v>>>>)

\* while !self.check(RightParen) { param_types.push(self.parse_type()?); .. }
parse_type_fn_params(q, param_types) ==
    LET c == Call("check", <<q, "RightParen">>) IN
    IF c.ok THEN Ok(c.p, param_types) ELSE
    LET t == Call("parse_type", <<c.p>>) IN
    IF ~t.ok THEN Err(t.p) ELSE
    LET c2 == Call("check", <<t.p, "RightParen">>) IN
    IF c2.ok THEN Ok(c2.p, Append(param_types, t.v)) ELSE
    LET e == Call("expect", <<c2.p, "Comma">>) IN
    IF ~e.ok THEN Err(e.p)
    ELSE Call("parse_type_fn_params", <<e.p, Append(param_types, t.v)>>)

\* The else-if chain over `_` and the builtin type keywords, in its order.
BuiltinTypeTokens ==
    <<"Underscore", "I8", "I16", "I32", "U8", "U16", "U32", "KwBool">>

BuiltinTypes ==
    <<"Wildcard", "I8", "I16", "I32", "U8", "U16", "U32", "Bool">>

parse_type_concrete(q) ==
    LET name == Call("consume_ident", <<q>>) IN
    IF ~name.ok THEN Err(name.p) ELSE
    LET c == Call("check", <<name.p, "Less">>) IN
    LET params == IF c.ok THEN Call("parse_type_params", <<c.p>>) ELSE Ok(c.p, <<>>) IN
    IF ~params.ok THEN Err(params.p) ELSE
    LET g == IF c.ok THEN Call("expect", <<params.p, "Greater">>) ELSE Ok(params.p, None) IN
    IF ~g.ok THEN Err(g.p) ELSE
    LET prev == previous_span(g.p) IN
    IF ~prev.ok THEN Err(prev.p) ELSE
    Ok(prev.p, [type |-> "Concrete", name |-> name.v, params |-> params.v,
                span |-> merge(name.v.span, prev.v)])

parse_type_builtin(q, i) ==
    IF i > Len(BuiltinTypeTokens) THEN Call("parse_type_concrete", <<q>>) ELSE
    LET c == Call("check", <<q, BuiltinTypeTokens[i]>>) IN
    IF ~c.ok THEN Call("parse_type_builtin", <<c.p, i + 1>>) ELSE
    LET span == previous_span(c.p) IN
    IF ~span.ok THEN Err(span.p) ELSE
    Ok(span.p, [type |-> BuiltinTypes[i], span |-> span.v])

parse_type_pointer(q) ==
    LET start == previous_span(q) IN
    IF ~start.ok THEN Err(start.p) ELSE
    LET typ == Call("parse_type", <<start.p>>) IN
    IF ~typ.ok THEN Err(typ.p) ELSE
    Ok(typ.p, [type |-> "Pointer", of |-> typ.v, span |-> merge(start.v, typ.v.span)])

parse_type_function(q) ==
    LET start == previous_span(q) IN
    IF ~start.ok THEN Err(start.p) ELSE
    LET l == Call("expect", <<start.p, "LeftParen">>) IN
    IF ~l.ok THEN Err(l.p) ELSE
    LET params == Call("parse_type_fn_params", <<l.p, <<>>>>) IN
    IF ~params.ok THEN Err(params.p) ELSE
    LET a == Call("expect", <<params.p, "Arrow">>) IN
    IF ~a.ok THEN Err(a.p) ELSE
    LET return_type == Call("parse_type", <<a.p>>) IN
    IF ~return_type.ok THEN Err(return_type.p) ELSE
    Ok(return_type.p,
       [type |-> "Function", params |-> params.v, return_type |-> return_type.v,
        span |-> merge(start.v, return_type.v.span)])

parse_type(q) ==
    LET q1 == [q EXCEPT !.expected = @ \cup {"BuiltinType"}] IN
    LET star == Call("check", <<q1, "Star">>) IN
    IF star.ok THEN Call("parse_type_pointer", <<star.p>>) ELSE
    LET fn == Call("check", <<star.p, "Fn">>) IN
    IF fn.ok THEN Call("parse_type_function", <<fn.p>>)
    ELSE Call("parse_type_builtin", <<fn.p, 1>>)

\* while !self.check(RightBrace) { .. } of parse_struct
parse_struct_fields(q, fields) ==
    LET c == Call("check", <<q, "RightBrace">>) IN
    IF c.ok THEN Ok(c.p, fields) ELSE
    LET name == Call("consume_ident", <<set_last_line_completed(c.p, "parse_struct")>>) IN
    IF ~name.ok THEN Err(name.p) ELSE
    LET colon == Call("expect", <<name.p, "Colon">>) IN
    IF ~colon.ok THEN Err(colon.p) ELSE
    LET typ == Call("parse_type", <<colon.p>>) IN
    IF ~typ.ok THEN Err(typ.p) ELSE
    LET c2 == Call("check", <<typ.p, "RightBrace">>) IN
    IF c2.ok THEN Ok(c2.p, Append(fields, [name |-> name.v, typ |-> typ.v])) ELSE
    LET e == Call("expect", <<c2.p, "Comma">>) IN
    IF ~e.ok THEN Err(e.p)
    ELSE Call("parse_struct_fields", <<e.p, Append(fields, [name |-> name.v, typ |-> typ.v])>>)

parse_struct(q) ==
    LET name == Call("parse_item_name", <<q>>) IN
    IF ~name.ok THEN Err(name.p) ELSE
    LET l == Call("expect", <<name.p, "LeftBrace">>) IN
    IF ~l.ok THEN Err(l.p) ELSE
    LET fields == Call("parse_struct_fields", <<l.p, <<>>>>) IN
    IF ~fields.ok THEN Err(fields.p) ELSE
    Ok(fields.p, [name |-> name.v, fields |-> fields.v])

\* while !self.check(RightParen) { .. } of parse_function
parse_function_params(q, params) ==
    LET c == Call("check", <<q, "RightParen">>) IN
    IF c.ok THEN Ok(c.p, params) ELSE
    LET name == Call("consume_ident", <<c.p>>) IN
    IF ~name.ok THEN Err(name.p) ELSE
    LET colon == Call("expect", <<name.p, "Colon">>) IN
    IF ~colon.ok THEN Err(colon.p) ELSE
    LET typ == Call("parse_type", <<colon.p>>) IN
    IF ~typ.ok THEN Err(typ.p) ELSE
    LET c2 == Call("check", <<typ.p, "RightParen">>) IN
    IF c2.ok THEN Ok(c2.p, Append(params, [name |-> name.v, typ |-> typ.v])) ELSE
    LET e == Call("expect", <<c2.p, "Comma">>) IN
    IF ~e.ok THEN Err(e.p)
    ELSE Call("parse_function_params", <<e.p, Append(params, [name |-> name.v, typ |-> typ.v])>>)

parse_function_body(q) ==
    LET semi == Call("check", <<q, "Semicolon">>) IN
    IF semi.ok THEN Ok(semi.p, None) ELSE
    LET l == Call("expect", <<semi.p, "LeftBrace">>) IN
    IF ~l.ok THEN Err(l.p)
    ELSE Call("parse_block", <<l.p>>)

parse_function(q, fn_type) ==
    LET name == Call("parse_item_name", <<q>>) IN
    IF ~name.ok THEN Err(name.p) ELSE
    LET l == Call("expect", <<name.p, "LeftParen">>) IN
    IF ~l.ok THEN Err(l.p) ELSE
    LET params == Call("parse_function_params", <<l.p, <<>>>>) IN
    IF ~params.ok THEN Err(params.p) ELSE
    LET a == Call("expect", <<params.p, "Arrow">>) IN
    IF ~a.ok THEN Err(a.p) ELSE
    LET return_type == Call("parse_type", <<a.p>>) IN
    IF ~return_type.ok THEN Err(return_type.p) ELSE
    LET body == Call("parse_function_body", <<return_type.p>>) IN
    IF ~body.ok THEN Err(body.p) ELSE
    Ok(body.p, [fn_type |-> fn_type, name |-> name.v, params |-> params.v,
                return_type |-> return_type.v, body |-> body.v])

-----------------------------------------------------------------------------
(* Parser: statements                                                      *)

parse_expr(q) == Call("pratt_parse", <<q, "Lowest">>)

parse_statement_if(q) ==
    LET start == previous_span(q) IN
    IF ~start.ok THEN Err(start.p) ELSE
    LET cond == Call("parse_expr", <<start.p>>) IN
    IF ~cond.ok THEN Err(cond.p) ELSE
    LET l == Call("expect", <<cond.p, "LeftBrace">>) IN
    IF ~l.ok THEN Err(l.p) ELSE
    LET then == Call("parse_block", <<l.p>>) IN
    IF ~then.ok THEN Err(then.p) ELSE
    LET c == Call("check", <<then.p, "Else">>) IN
    LET l2 == IF c.ok THEN Call("expect", <<c.p, "LeftBrace">>) ELSE Ok(c.p, None) IN
    IF ~l2.ok THEN Err(l2.p) ELSE
    LET else_ == IF c.ok THEN Call("parse_block", <<l2.p>>) ELSE Ok(l2.p, None) IN
    IF ~else_.ok THEN Err(else_.p) ELSE
    LET prev == previous_span(else_.p) IN
    IF ~prev.ok THEN Err(prev.p) ELSE
    Ok(prev.p, [stmt |-> "If", cond |-> cond.v, then |-> then.v, else_ |-> else_.v,
                span |-> merge(start.v, prev.v)])

parse_statement_loop(q) ==
    LET start == previous_span(q) IN
    IF ~start.ok THEN Err(start.p) ELSE
    LET l == Call("expect", <<start.p, "LeftBrace">>) IN
    IF ~l.ok THEN Err(l.p) ELSE
    LET body == Call("parse_block", <<l.p>>) IN
    IF ~body.ok THEN Err(body.p) ELSE
    LET prev == previous_span(body.p) IN
    IF ~prev.ok THEN Err(prev.p) ELSE
    Ok(prev.p, [stmt |-> "Loop", body |-> body.v, span |-> merge(start.v, prev.v)])

parse_statement_while(q) ==
    LET start == previous_span(q) IN
    IF ~start.ok THEN Err(start.p) ELSE
    LET cond == Call("parse_expr", <<start.p>>) IN
    IF ~cond.ok THEN Err(cond.p) ELSE
    LET l == Call("expect", <<cond.p, "LeftBrace">>) IN
    IF ~l.ok THEN Err(l.p) ELSE
    LET body == Call("parse_block", <<l.p>>) IN
    IF ~body.ok THEN Err(body.p) ELSE
    LET prev == previous_span(body.p) IN
    IF ~prev.ok THEN Err(prev.p) ELSE
    Ok(prev.p, [stmt |-> "While", cond |-> cond.v, body |-> body.v,
                span |-> merge(start.v, prev.v)])

\* break and continue
parse_statement_jump(q, stmt) ==
    LET span == previous_span(q) IN
    IF ~span.ok THEN Err(span.p) ELSE
    LET semi == Call("expect_semicolon", <<span.p>>) IN
    IF ~semi.ok THEN Err(semi.p) ELSE
    Ok(semi.p, [stmt |-> stmt, span |-> span.v])

parse_statement_return(q) ==
    LET start == previous_span(q) IN
    IF ~start.ok THEN Err(start.p) ELSE
    LET value == Call("parse_expr", <<start.p>>) IN
    IF ~value.ok THEN Err(value.p) ELSE
    LET semi == Call("expect_semicolon", <<value.p>>) IN
    IF ~semi.ok THEN Err(semi.p) ELSE
    LET prev == previous_span(semi.p) IN
    IF ~prev.ok THEN Err(prev.p) ELSE
    Ok(prev.p, [stmt |-> "Return", value |-> value.v, span |-> merge(start.v, prev.v)])

parse_statement_let(q) ==
    LET start == previous_span(q) IN
    IF ~start.ok THEN Err(start.p) ELSE
    LET name == Call("consume_ident", <<start.p>>) IN
    IF ~name.ok THEN Err(name.p) ELSE
    LET c == Call("check", <<name.p, "Colon">>) IN
    LET typ == IF c.ok THEN Call("parse_type", <<c.p>>) ELSE Ok(c.p, None) IN
    IF ~typ.ok THEN Err(typ.p) ELSE
    LET a == Call("expect", <<typ.p, "Assign">>) IN
    IF ~a.ok THEN Err(a.p) ELSE
    LET value == Call("parse_expr", <<a.p>>) IN
    IF ~value.ok THEN Err(value.p) ELSE
    LET semi == Call("expect_semicolon", <<value.p>>) IN
    IF ~semi.ok THEN Err(semi.p) ELSE
    LET prev == previous_span(semi.p) IN
    IF ~prev.ok THEN Err(prev.p) ELSE
    Ok(prev.p, [stmt |-> "Let", name |-> name.v, typ |-> typ.v, value |-> value.v,
                span |-> merge(start.v, prev.v)])

parse_statement_expr(q) ==
    LET expr == Call("parse_expr", <<q>>) IN
    IF ~expr.ok THEN Err(expr.p) ELSE
    LET semi == Call("expect_semicolon", <<expr.p>>) IN
    IF ~semi.ok THEN Err(semi.p) ELSE
    Ok(semi.p, [stmt |-> "Expr", expr |-> expr.v, span |-> expr.v.span])

\* a statement that starts without setting the flag
parse_statement_unmarked(q) ==
    LET q1 == q IN
    LET if == Call("check", <<q1, "If">>) IN
    IF if.ok THEN Call("parse_statement_if", <<if.p>>) ELSE
    LET loop == Call("check", <<if.p, "Loop">>) IN
    IF loop.ok THEN Call("parse_statement_loop", <<loop.p>>) ELSE
    LET while == Call("check", <<loop.p, "While">>) IN
    IF while.ok THEN Call("parse_statement_while", <<while.p>>) ELSE
    LET break == Call("check", <<while.p, "Break">>) IN
    IF break.ok THEN Call("parse_statement_jump", <<break.p, "Break">>) ELSE
    LET continue == Call("check", <<break.p, "Continue">>) IN
    IF continue.ok THEN Call("parse_statement_jump", <<continue.p, "Continue">>) ELSE
    LET return == Call("check", <<continue.p, "Return">>) IN
    IF return.ok THEN Call("parse_statement_return", <<return.p>>) ELSE
    LET let == Call("check", <<return.p, "Let">>) IN
    IF let.ok THEN Call("parse_statement_let", <<let.p>>) ELSE
    LET brace == Call("check", <<let.p, "LeftBrace">>) IN
    IF brace.ok THEN Call("parse_block", <<brace.p>>)
    ELSE Call("parse_statement_expr", <<brace.p>>)

parse_statement(q) ==
    LET q1 == set_last_line_completed(q, "parse_statement") IN
    LET if == Call("check", <<q1, "If">>) IN
    IF if.ok THEN Call("parse_statement_if", <<if.p>>) ELSE
    LET loop == Call("check", <<if.p, "Loop">>) IN
    IF loop.ok THEN Call("parse_statement_loop", <<loop.p>>) ELSE
    LET while == Call("check", <<loop.p, "While">>) IN
    IF while.ok THEN Call("parse_statement_while", <<while.p>>) ELSE
    LET break == Call("check", <<while.p, "Break">>) IN
    IF break.ok THEN Call("parse_statement_jump", <<break.p, "Break">>) ELSE
    LET continue == Call("check", <<break.p, "Continue">>) IN
    IF continue.ok THEN Call("parse_statement_jump", <<continue.p, "Continue">>) ELSE
    LET return == Call("check", <<continue.p, "Return">>) IN
    IF return.ok THEN Call("parse_statement_return", <<return.p>>) ELSE
    LET let == Call("check", <<return.p, "Let">>) IN
    IF let.ok THEN Call("parse_statement_let", <<let.p>>) ELSE
    LET brace == Call("check", <<let.p, "LeftBrace">>) IN
    IF brace.ok THEN Call("parse_block", <<brace.p>>)
    ELSE Call("parse_statement_expr", <<brace.p>>)

\* a failed synchronization ends the block as a closing brace would
parse_block_loop_swallowed(q, statements) ==
    IF Aborted(q) THEN Err(q) ELSE
    LET c == Call("check", <<q, "RightBrace">>) IN
    IF c.ok THEN Ok(LoopIteration("parse_block", q, c.p, TRUE), statements) ELSE
    LET stmt == Call("parse_statement", <<c.p>>) IN
    IF stmt.ok
    THEN (LET q1 == LoopIteration("parse_block", q, stmt.p, FALSE) IN
         Call("parse_block_loop", <<q1, Append(statements, stmt.v)>>))
    ELSE LET sync == Call("synchronize_statement", <<stmt.p>>) IN
         IF ~sync.ok THEN Ok(LoopIteration("parse_block", q, sync.p, TRUE), statements)
         ELSE LET q1 == LoopIteration("parse_block", q, sync.p, FALSE) IN
              Call("parse_block_loop", <<q1, statements>>)

\* while !self.check(RightBrace) { .. } of parse_block
parse_block_loop(q, statements) ==
    IF Aborted(q) THEN Err(q) ELSE
    LET c == Call("check", <<q, "RightBrace">>) IN
    IF c.ok THEN Ok(LoopIteration("parse_block", q, c.p, TRUE), statements) ELSE
    LET stmt == Call("parse_statement", <<c.p>>) IN
    IF stmt.ok
    THEN (LET q1 == LoopIteration("parse_block", q, stmt.p, FALSE) IN
         Call("parse_block_loop", <<q1, Append(statements, stmt.v)>>))
    ELSE LET sync == Call("synchronize_statement", <<stmt.p>>) IN
         IF ~sync.ok THEN Err(LoopIteration("parse_block", q, sync.p, TRUE))
         ELSE LET q1 == LoopIteration("parse_block", q, sync.p, FALSE) IN
              Call("parse_block_loop", <<q1, statements>>)

parse_block(q) ==
    LET start == previous_span(q) IN
    IF ~start.ok THEN Err(start.p) ELSE
    LET statements == Call("parse_block_loop", <<start.p, <<>>>>) IN
    IF ~statements.ok THEN Err(statements.p) ELSE
    LET prev == previous_span(statements.p) IN
    IF ~prev.ok THEN Err(prev.p) ELSE
    Ok(prev.p, [stmt |-> "Block", statements |-> statements.v,
                span |-> merge(start.v, prev.v)])

-----------------------------------------------------------------------------
(* Pratt expression engine                                                 *)

Precedence ==
    [Lowest |-> 0, Assignment |-> 1, Or |-> 2, And |-> 3, Equation |-> 4,
     Comparision |-> 5, Addition |-> 6, Multiplication |-> 7, Prefix |-> 8,
     CallOrField |-> 9]

one_lower(prec) ==
    CASE prec \in {"Lowest", "Assignment"} -> "Lowest"
      [] prec = "Or" -> "Assignment"
      [] prec = "And" -> "Or"
      [] prec = "Equation" -> "And"
      [] prec = "Comparision" -> "Equation"
      [] prec = "Addition" -> "Comparision"
      [] prec = "Multiplication" -> "Addition"
      [] prec = "Prefix" -> "Multiplication"
      [] prec = "CallOrField" -> "Prefix"

\* The prefix handlers registered by parse(), by token kind.
PrefixParsers ==
    [Literal   |-> [parser |-> "LiteralParser"],
     Ident     |-> [parser |-> "NameParser"],
     Ampersand |-> [parser |-> "UnaryOpParser", op |-> "AddressOf"],
     Plus      |-> [parser |-> "UnaryOpParser", op |-> "Plus"],
     Minus     |-> [parser |-> "UnaryOpParser", op |-> "Minus"],
     Star      |-> [parser |-> "UnaryOpParser", op |-> "Deref"],
     Not       |-> [parser |-> "UnaryOpParser", op |-> "Not"],
     LeftParen |-> [parser |-> "ParenthesisedParser"]]

BinaryOpParser(op, prec, left_assoc) ==
    [parser |-> "BinaryOpParser", prec |-> prec, op |-> op, left_assoc |-> left_assoc]

\* The infix handlers registered by parse(), by token kind.
InfixParsers ==
    [LeftParen    |-> [parser |-> "CallParser", prec |-> "CallOrField"],
     Dot          |-> [parser |-> "FieldParser", prec |-> "CallOrField"],
     And          |-> BinaryOpParser("And", "And", TRUE),
     Or           |-> BinaryOpParser("Or", "Or", TRUE),
     Plus         |-> BinaryOpParser("Add", "Addition", TRUE),
     Minus        |-> BinaryOpParser("Subtract", "Addition", TRUE),
     Star         |-> BinaryOpParser("Multiply", "Multiplication", TRUE),
     Slash        |-> BinaryOpParser("Divide", "Multiplication", TRUE),
     Percent      |-> BinaryOpParser("Modulo", "Multiplication", TRUE),
     Less         |-> BinaryOpParser("Less", "Comparision", TRUE),
     LessEqual    |-> BinaryOpParser("LessEqual", "Comparision", TRUE),
     Greater      |-> BinaryOpParser("Greater", "Comparision", TRUE),
     GreaterEqual |-> BinaryOpParser("GreaterEqual", "Comparision", TRUE),
     Equal        |-> BinaryOpParser("Equal", "Equation", TRUE),
     NotEqual     |-> BinaryOpParser("NotEqual", "Equation", TRUE),
     Assign       |-> BinaryOpParser("Assign", "Assignment", FALSE)]

next_precedence(q) ==
    IF peek(q) # "None" /\ Kind(peek(q)) \in DOMAIN InfixParsers
    THEN InfixParsers[Kind(peek(q))].prec
    ELSE "Lowest"

LiteralParser_parse(q) ==
    LET tok == Call("consume_expect", <<q>>) IN
    IF ~tok.ok THEN Err(tok.p) ELSE
    IF tok.v.t \notin LiteralTokens THEN Err(Panic(tok.p, "expected a literal")) ELSE
    Ok(tok.p, [expr |-> "Literal", literal |-> [type |-> tok.v.t, value |-> tok.v.v],
               span |-> tok.v.span])

NameParser_parse(q) ==
    LET ident == Call("consume_ident", <<q>>) IN
    IF ~ident.ok THEN Err(Panic(ident.p, "identifier disappeared")) ELSE
    LET c == Call("check", <<ident.p, "DoubleColon">>) IN
    LET l == IF c.ok THEN Call("expect", <<c.p, "Less">>) ELSE Ok(c.p, None) IN
    IF ~l.ok THEN Err(l.p) ELSE
    LET types == IF c.ok THEN Call("parse_type_params", <<l.p>>) ELSE Ok(l.p, <<>>) IN
    IF ~types.ok THEN Err(types.p) ELSE
    LET g == IF c.ok THEN Call("expect", <<types.p, "Greater">>) ELSE Ok(types.p, None) IN
    IF ~g.ok THEN Err(g.p) ELSE
    LET prev == previous_span(g.p) IN
    IF ~prev.ok THEN Err(prev.p) ELSE
    Ok(prev.p, [expr |-> "Name", ident |-> ident.v, type_params |-> types.v,
                span |-> merge(ident.v.span, prev.v)])

UnaryOpParser_parse(q, unop) ==
    LET op == Call("consume_expect", <<q>>) IN
    IF ~op.ok THEN Err(op.p) ELSE
    LET operand == Call("pratt_parse", <<op.p, "Prefix">>) IN
    IF ~operand.ok THEN Err(operand.p) ELSE
    Ok(operand.p, [expr |-> "Unary", op |-> [value |-> unop, span |-> op.v.span],
                   operand |-> operand.v, span |-> merge(op.v.span, operand.v.span)])

\* a parenthesised expression given the span of its parentheses
ParenthesisedParser_parse_wide(q) ==
    LET tok == Call("consume_expect", <<q>>) IN
    IF ~tok.ok THEN Err(tok.p) ELSE
    LET expr == Call("parse_expr", <<tok.p>>) IN
    IF ~expr.ok THEN Err(expr.p) ELSE
    LET close == Call("expect_closing", <<expr.p, "RightParen", tok.v.span>>) IN
    IF ~close.ok THEN Err(close.p) ELSE
    Ok(close.p, [expr.v EXCEPT !.span = merge(tok.v.span, close.p.prev_span)])

ParenthesisedParser_parse(q) ==
    LET tok == Call("consume_expect", <<q>>) IN
    IF ~tok.ok THEN Err(tok.p) ELSE
    LET expr == Call("parse_expr", <<tok.p>>) IN
    IF ~expr.ok THEN Err(expr.p) ELSE
    LET close == Call("expect_closing", <<expr.p, "RightParen", tok.v.span>>) IN
    IF ~close.ok THEN Err(close.p) ELSE
    Ok(close.p, expr.v)

\* every binary operator parsed as left-associative
BinaryOpParser_parse_left(q, handler, lhs) ==
    LET op == Call("consume_expect", <<q>>) IN
    IF ~op.ok THEN Err(op.p) ELSE
    LET rhs == Call("pratt_parse", <<op.p, handler.prec>>) IN
    IF ~rhs.ok THEN Err(rhs.p) ELSE
    Ok(rhs.p, [expr |-> "Binary", lhs |-> lhs,
               op |-> [value |-> handler.op, span |-> op.v.span], rhs |-> rhs.v,
               span |-> merge(lhs.span, rhs.v.span)])

BinaryOpParser_parse(q, handler, lhs) ==
    LET op == Call("consume_expect", <<q>>) IN
    IF ~op.ok THEN Err(op.p) ELSE
    LET rhs_prec == IF handler.left_assoc THEN handler.prec ELSE one_lower(handler.prec) IN
    LET rhs == Call("pratt_parse", <<op.p, rhs_prec>>) IN
    IF ~rhs.ok THEN Err(rhs.p) ELSE
    Ok(rhs.p, [expr |-> "Binary", lhs |-> lhs,
               op |-> [value |-> handler.op, span |-> op.v.span], rhs |-> rhs.v,
               span |-> merge(lhs.span, rhs.v.span)])

\* every argument parsed as an expression
CallParser_param_unnamed(q) ==
    LET ident_next == peek(q) # "None" /\ Kind(peek(q)) = "Ident" IN
    LET q1 == IF ident_next THEN [q EXCEPT !.expected2 = @ \cup {"Colon"}] ELSE q IN
    LET value == Call("parse_expr", <<q1>>) IN
    IF ~value.ok THEN Err(value.p) ELSE
    Ok(value.p, [param |-> "Unnamed", value |-> value.v])

\* One argument of a call: `ident : expr` or `expr`.
CallParser_param(q) ==
    LET ident_next == peek(q) # "None" /\ Kind(peek(q)) = "Ident" IN
    LET q1 == IF ident_next THEN [q EXCEPT !.expected2 = @ \cup {"Colon"}] ELSE q IN
    IF ident_next /\ peek2(q1) = "Colon"
    THEN (LET name == Call("consume_ident", <<q1>>) IN
         IF ~name.ok THEN Err(Panic(name.p, "expected ident")) ELSE
         (LET colon == Call("expect", <<name.p, "Colon">>) IN
         IF ~colon.ok THEN Err(Panic(colon.p, "expected ':'")) ELSE
         (LET value == Call("parse_expr", <<colon.p>>) IN
         IF ~value.ok THEN Err(value.p) ELSE
         Ok(value.p, [param |-> "Named", name |-> name.v, value |-> value.v]))))
    ELSE LET value == Call("parse_expr", <<q1>>) IN
         IF ~value.ok THEN Err(value.p) ELSE
         Ok(value.p, [param |-> "Unnamed", value |-> value.v])

\* while !parser.check(RightParen) { .. } of CallParser::parse
CallParser_params(q, open_span, params) ==
    LET c == Call("check", <<q, "RightParen">>) IN
    IF c.ok THEN Ok(c.p, params) ELSE
    LET param == Call("CallParser_param", <<c.p>>) IN
    IF ~param.ok THEN Err(param.p) ELSE
    LET c2 == Call("check", <<param.p, "RightParen">>) IN
    IF c2.ok THEN Ok(c2.p, Append(params, param.v)) ELSE
    LET comma == Call("expect_closing", <<c2.p, "Comma", open_span>>) IN
    IF ~comma.ok THEN Err(comma.p)
    ELSE Call("CallParser_params", <<comma.p, open_span, Append(params, param.v)>>)

CallParser_parse(q, callee) ==
    LET l == Call("expect", <<q, "LeftParen">>) IN
    IF ~l.ok THEN Err(Panic(l.p, "expected left paren")) ELSE
    LET open_span == previous_span(l.p) IN
    IF ~open_span.ok THEN Err(open_span.p) ELSE
    LET params == Call("CallParser_params", <<open_span.p, open_span.v, <<>>>>) IN
    IF ~params.ok THEN Err(params.p) ELSE
    LET prev == previous_span(params.p) IN
    IF ~prev.ok THEN Err(prev.p) ELSE
    Ok(prev.p, [expr |-> "Call", callee |-> callee, params |-> params.v,
                span |-> merge(callee.span, prev.v)])

FieldParser_parse(q, value) ==
    LET dot == Call("expect", <<q, "Dot">>) IN
    IF ~dot.ok THEN Err(Panic(dot.p, "expected dot")) ELSE
    LET field == Call("consume_ident", <<dot.p>>) IN
    IF ~field.ok THEN Err(field.p) ELSE
    Ok(field.p, [expr |-> "Field", value |-> value, field |-> field.v,
                 span |-> merge(value.span, field.v.span)])

PrefixParser_parse(handler, q) ==
    CASE handler.parser = "LiteralParser" -> Call("LiteralParser_parse", <<q>>)
      [] handler.parser = "NameParser" -> Call("NameParser_parse", <<q>>)
      [] handler.parser = "UnaryOpParser" -> Call("UnaryOpParser_parse", <<q, handler.op>>)
      [] handler.parser = "ParenthesisedParser" -> Call("ParenthesisedParser_parse", <<q>>)

InfixParser_parse(handler, q, lhs) ==
    CASE handler.parser = "CallParser" -> Call("CallParser_parse", <<q, lhs>>)
      [] handler.parser = "FieldParser" -> Call("FieldParser_parse", <<q, lhs>>)
      [] handler.parser = "BinaryOpParser" -> Call("BinaryOpParser_parse", <<q, handler, lhs>>)

\* the loop without its insertions into the expected-set
pratt_loop_unrecorded(q, prec, expr) ==
    IF Precedence[prec] >= Precedence[next_precedence(q)] THEN Ok(q, expr) ELSE
    IF peek(q) = "None" THEN Err(Panic(q, "token dissapeared")) ELSE
    LET next == Call("InfixParser_parse", <<InfixParsers[Kind(peek(q))], q, expr>>) IN
    IF ~next.ok THEN Err(next.p)
    ELSE Call("pratt_loop", <<next.p, prec, next.v>>)

pratt_loop(q, prec, expr) ==
    LET q1 == [q EXCEPT !.expected = @ \cup {"operator"} \cup DOMAIN InfixParsers] IN
    IF Precedence[prec] >= Precedence[next_precedence(q1)] THEN Ok(q1, expr) ELSE
    IF peek(q1) = "None" THEN Err(Panic(q1, "token dissapeared")) ELSE
    LET next == Call("InfixParser_parse", <<InfixParsers[Kind(peek(q1))], q1, expr>>) IN
    IF ~next.ok THEN Err(next.p)
    ELSE Call("pratt_loop", <<next.p, prec, next.v>>)

pratt_parse(q, prec) ==
    LET q1 == [q EXCEPT !.expected = @ \cup {"expression"}] IN
    IF peek(q1) = "None" \/ Kind(peek(q1)) \notin DOMAIN PrefixParsers
    THEN Traced("pratt_parse", q, Err(Call("emit_error", <<q1, None>>)), None) ELSE
    LET expr == Call("PrefixParser_parse", <<PrefixParsers[Kind(peek(q1))], q1>>) IN
    IF ~expr.ok THEN Err(expr.p)
    ELSE Call("pratt_loop", <<expr.p, prec, expr.v>>)

\* self.method(..) and handler.parse(parser, ..): the call of a method by name.
Call(method, a) ==
    CASE method = "consume" -> consume(a[1])
      [] method = "consume_expect" -> consume_expect(a[1])
      [] method = "check" -> check(a[1], a[2])
      [] method = "emit_error" -> emit_error(a[1], a[2])
      [] method = "expect_semicolon" -> expect_semicolon(a[1])
      [] method = "expect_closing" -> expect_closing(a[1], a[2], a[3])
      [] method = "expect" -> expect(a[1], a[2])
      [] method = "check_ident" -> check_ident(a[1])
      [] method = "consume_ident" -> consume_ident(a[1])
      [] method = "synchronize_item_loop" -> synchronize_item_loop(a[1])
      [] method = "synchronize_item" -> synchronize_item(a[1])
      [] method = "synchronize_statement_loop" -> synchronize_statement_loop(a[1])
      [] method = "synchronize_statement" -> synchronize_statement(a[1])
      [] method = "parse_item_name_loop" -> parse_item_name_loop(a[1], a[2])
      [] method = "parse_item_name" -> parse_item_name(a[1])
      [] method = "parse_type_params_loop" -> parse_type_params_loop(a[1], a[2])
      [] method = "parse_type_params" -> parse_type_params(a[1])
      [] method = "parse_type_fn_params" -> parse_type_fn_params(a[1], a[2])
      [] method = "parse_type_concrete" -> parse_type_concrete(a[1])
      [] method = "parse_type_builtin" -> parse_type_builtin(a[1], a[2])
      [] method = "parse_type_pointer" -> parse_type_pointer(a[1])
      [] method = "parse_type_function" -> parse_type_function(a[1])
      [] method = "parse_type" -> parse_type(a[1])
      [] method = "parse_struct_fields" -> parse_struct_fields(a[1], a[2])
      [] method = "parse_struct" -> parse_struct(a[1])
      [] method = "parse_function_params" -> parse_function_params(a[1], a[2])
      [] method = "parse_function_body" -> parse_function_body(a[1])
      [] method = "parse_function" -> parse_function(a[1], a[2])
      [] method = "parse_expr" -> parse_expr(a[1])
      [] method = "parse_statement_if" -> parse_statement_if(a[1])
      [] method = "parse_statement_loop" -> parse_statement_loop(a[1])
      [] method = "parse_statement_while" -> parse_statement_while(a[1])
      [] method = "parse_statement_jump" -> parse_statement_jump(a[1], a[2])
      [] method = "parse_statement_return" -> parse_statement_return(a[1])
      [] method = "parse_statement_let" -> parse_statement_let(a[1])
      [] method = "parse_statement_expr" -> parse_statement_expr(a[1])
      [] method = "parse_statement" -> parse_statement(a[1])
      [] method = "parse_block_loop" -> parse_block_loop(a[1], a[2])
      [] method = "parse_block" -> parse_block(a[1])
      [] method = "LiteralParser_parse" -> LiteralParser_parse(a[1])
      [] method = "NameParser_parse" -> NameParser_parse(a[1])
      [] method = "UnaryOpParser_parse" -> UnaryOpParser_parse(a[1], a[2])
      [] method = "ParenthesisedParser_parse" -> ParenthesisedParser_parse(a[1])
      [] method = "BinaryOpParser_parse" -> BinaryOpParser_parse(a[1], a[2], a[3])
      [] method = "CallParser_param" -> CallParser_param(a[1])
      [] method = "CallParser_params" -> CallParser_params(a[1], a[2], a[3])
      [] method = "CallParser_parse" -> CallParser_parse(a[1], a[2])
      [] method = "FieldParser_parse" -> FieldParser_parse(a[1], a[2])
      [] method = "PrefixParser_parse" -> PrefixParser_parse(a[1], a[2])
      [] method = "InfixParser_parse" -> InfixParser_parse(a[1], a[2], a[3])
      [] method = "pratt_loop" -> pratt_loop(a[1], a[2], a[3])
      [] method = "pratt_parse" -> pratt_parse(a[1], a[2])

-----------------------------------------------------------------------------
(* parse_program: the program loop                                         *)

EmptyProgram == [structs |-> <<>>, functions |-> <<>>]

\* parse(tokens, reporter): the token vector is an edited seed or one of
\* the operator pairs.
Init ==
    /\ \/ \E seed \in Seeds : \E i \in FirstCut(seed)..Len(seed) :
             input \in EditsAt(seed, i)
       \/ input \in {[names |-> n, brk |-> 0] : n \in PrecedenceInputs}
    /\ p = ParserNew
    /\ program = EmptyProgram
    /\ pc = "parse_program"

\* The state at the top of an iteration, after `last_line_completed = true`.
LoopTop == set_last_line_completed(p, "parse_program")

\* The end of an iteration that began in state p.
NextIteration(x, prog) ==
    \E q \in {LoopIteration("parse_program", p, x, FALSE)} :
        /\ p' = q
        /\ program' = prog
        /\ pc' = IF Aborted(q) THEN "aborted" ELSE "parse_program"
        /\ UNCHANGED input

Return ==
    /\ pc = "parse_program"
    /\ is_at_end(LoopTop)
    /\ p' = LoopIteration("parse_program", p, LoopTop, TRUE)
    /\ pc' = "returned"
    /\ UNCHANGED <<input, program>>

ItemStruct ==
    /\ pc = "parse_program"
    /\ ~is_at_end(LoopTop)
    /\ \E c \in {Call("check", <<LoopTop, "Struct">>)} :
       /\ c.ok
       /\ \E s \in {Call("parse_struct", <<c.p>>)} :
          IF s.ok
          THEN NextIteration(s.p, [program EXCEPT !.structs = Append(@, s.v)])
          ELSE NextIteration(Call("synchronize_item", <<s.p>>), program)

ItemFn ==
    /\ pc = "parse_program"
    /\ ~is_at_end(LoopTop)
    /\ \E c1 \in {Call("check", <<LoopTop, "Struct">>)} :
       /\ ~c1.ok
       /\ \E c \in {Call("check", <<c1.p, "Fn">>)} :
          /\ c.ok
          /\ \E f \in {Call("parse_function", <<c.p, "Normal">>)} :
             IF f.ok
             THEN NextIteration(f.p, [program EXCEPT !.functions = Append(@, f.v)])
             ELSE NextIteration(Call("synchronize_item", <<f.p>>), program)

\* the function parsed where `fn` was missing, without synchronizing first
ItemExtern_unsynchronized ==
    /\ pc = "parse_program"
    /\ ~is_at_end(LoopTop)
    /\ \E c1 \in {Call("check", <<LoopTop, "Struct">>)} :
       /\ ~c1.ok
       /\ \E c2 \in {Call("check", <<c1.p, "Fn">>)} :
          /\ ~c2.ok
          /\ \E c \in {Call("check", <<c2.p, "Extern">>)} :
             /\ c.ok
             /\ \E e \in {Call("expect", <<c.p, "Fn">>)} :
                \E q \in {e.p} :
                \E f \in {Call("parse_function", <<q, "Extern">>)} :
                   IF f.ok
                   THEN NextIteration(f.p, [program EXCEPT !.functions = Append(@, f.v)])
                   ELSE NextIteration(Call("synchronize_item", <<f.p>>), program)

ItemExtern ==
    /\ pc = "parse_program"
    /\ ~is_at_end(LoopTop)
    /\ \E c1 \in {Call("check", <<LoopTop, "Struct">>)} :
       /\ ~c1.ok
       /\ \E c2 \in {Call("check", <<c1.p, "Fn">>)} :
          /\ ~c2.ok
          /\ \E c \in {Call("check", <<c2.p, "Extern">>)} :
             /\ c.ok
             /\ \E e \in {Call("expect", <<c.p, "Fn">>)} :
                \E q \in {IF e.ok THEN e.p ELSE Call("synchronize_item", <<e.p>>)} :
                \E f \in {Call("parse_function", <<q, "Extern">>)} :
                   IF f.ok
                   THEN NextIteration(f.p, [program EXCEPT !.functions = Append(@, f.v)])
                   ELSE NextIteration(Call("synchronize_item", <<f.p>>), program)

ItemUnexpected ==
    /\ pc = "parse_program"
    /\ ~is_at_end(LoopTop)
    /\ \E c1 \in {Call("check", <<LoopTop, "Struct">>)} :
       /\ ~c1.ok
       /\ \E c2 \in {Call("check", <<c1.p, "Fn">>)} :
          /\ ~c2.ok
          /\ \E c \in {Call("check", <<c2.p, "Extern">>)} :
             /\ ~c.ok
             /\ NextIteration(Call("synchronize_item", <<emit_error(c.p, None)>>), program)

Next ==
    \/ Return
    \/ ItemStruct
    \/ ItemFn
    \/ ItemExtern
    \/ ItemUnexpected

Spec == Init /\ [][Next]_vars

-----------------------------------------------------------------------------
(* Properties                                                              *)

\* The panic!/expect()/assert!/unreachable! messages of parser.rs.
PanicMessages ==
    {"no tokens expected", "no previous token", "token disappeared",
     "token dissapeared", "unreachable", "expected a literal",
     "identifier disappeared", "expected ident", "expected ':'",
     "expected left paren", "expected dot",
     "assertion failed: prev_line <= next_line"}

LogOf(ev) == {i \in DOMAIN p.log : p.log[i].ev = ev}

\* C1: on every input parse returns a Program and never aborts: no panic,
\* expect(), unreachable!() or assertion of the parser is reached.
C1_NeverPanics ==
    /\ p.panic \notin PanicMessages
    /\ pc = "aborted" => p.panic = "diverges"

\* An erroneous input on which errors were reported, tokens were skipped
\* by both synchronizations, and parse returned.
C1_Witness ==
    /\ pc = "returned"
    /\ Len(p.errors) > 1
    /\ \E i \in LogOf("synchronize_statement") : p.log[i].pos1 > p.log[i].pos0
    /\ \E i \in LogOf("synchronize_item") : p.log[i].pos1 > p.log[i].pos0

\* C2: every iteration of synchronize_item and of synchronize_statement
\* consumes one token or returns; every iteration of the parse_program and
\* parse_block loops consumes at least one token or leaves the loop; the
\* cursor never passes the end of the input, so parse terminates.
C2_Progress ==
    /\ p.panic # "diverges"
    /\ p.pos <= Len(input.names) + 1
    /\ \A i \in LogOf("iteration") :
          LET e == p.log[i] IN
          /\ e.pos0 <= e.pos1
          /\ e.exits \/ e.pos1 > e.pos0
          /\ e.loop \in {"synchronize_item", "synchronize_statement"} =>
                \/ e.exits /\ e.pos1 \in {e.pos0, e.pos0 + 1}
                \/ ~e.exits /\ e.pos1 = e.pos0 + 1

\* A statement failed, synchronize_statement returned at once without
\* consuming anything, and the block loop went on to return.
C2_Witness ==
    /\ pc = "returned"
    /\ \E i \in LogOf("synchronize_statement") :
          /\ p.log[i].ok
          /\ p.log[i].pos1 = p.log[i].pos0
    /\ \E i \in LogOf("synchronize_item") : p.log[i].pos1 = p.log[i].pos0
    /\ \E i \in LogOf("iteration") :
          p.log[i].loop = "parse_block" /\ ~p.log[i].exits

\* The ladder of binary operators: level and operator of each token.
C3_Ladder ==
    [Assign       |-> [level |-> 1, op |-> "Assign"],
     Or           |-> [level |-> 2, op |-> "Or"],
     And          |-> [level |-> 3, op |-> "And"],
     Equal        |-> [level |-> 4, op |-> "Equal"],
     NotEqual     |-> [level |-> 4, op |-> "NotEqual"],
     Less         |-> [level |-> 5, op |-> "Less"],
     LessEqual    |-> [level |-> 5, op |-> "LessEqual"],
     Greater      |-> [level |-> 5, op |-> "Greater"],
     GreaterEqual |-> [level |-> 5, op |-> "GreaterEqual"],
     Plus         |-> [level |-> 6, op |-> "Add"],
     Minus        |-> [level |-> 6, op |-> "Subtract"],
     Star         |-> [level |-> 7, op |-> "Multiply"],
     Slash        |-> [level |-> 7, op |-> "Divide"],
     Percent      |-> [level |-> 7, op |-> "Modulo"]]

\* An expression without its spans: a name, or <<lhs, operator, rhs>>.
RECURSIVE C3_Shape(_)
C3_Shape(e) ==
    IF e.expr = "Name" /\ e.type_params = <<>> THEN e.ident.value
    ELSE IF e.expr = "Binary" THEN <<C3_Shape(e.lhs), e.op.value, C3_Shape(e.rhs)>>
    ELSE "other"

\* The expression of the only statement of the only function of the program.
C3_Parsed ==
    IF /\ pc = "returned"
       /\ p.errors = <<>>
       /\ program.structs = <<>>
       /\ Len(program.functions) = 1
       /\ program.functions[1].body # None
       /\ Len(program.functions[1].body.statements) = 1
       /\ program.functions[1].body.statements[1].stmt = "Expr"
    THEN C3_Shape(program.functions[1].body.statements[1].expr)
    ELSE "none"

C3_Left(op1, op2) == <<<<"a", C3_Ladder[op1].op, "b">>, C3_Ladder[op2].op, "c">>

C3_Right(op1, op2) == <<"a", C3_Ladder[op1].op, <<"b", C3_Ladder[op2].op, "c">>>>

\* C3: `a op1 b op2 c` parses as (a op1 b) op2 c when the two operators are
\* on the same left-associative level, as a op1 (b op2 c) when both are `=`,
\* and with the operator of the higher level as the inner node otherwise;
\* `a = b = c + d * e < f` parses as a = (b = ((c + (d * e)) < f)).
C3_PrecedenceLaw ==
    pc = "returned" =>
      /\ (input.names \in PrecedenceInputs /\ input.brk = 0) =>
            LET op1 == input.names[9]
                op2 == input.names[11]
            IN C3_Parsed =
                 IF C3_Ladder[op1].level = C3_Ladder[op2].level
                 THEN IF op1 = "Assign" THEN C3_Right(op1, op2) ELSE C3_Left(op1, op2)
                 ELSE IF C3_Ladder[op1].level > C3_Ladder[op2].level
                      THEN C3_Left(op1, op2)
                      ELSE C3_Right(op1, op2)
      /\ (input.names = SeedPrecedence /\ input.brk = 0) =>
            C3_Parsed =
              <<"a", "Assign",
                <<"b", "Assign",
                  <<<<"c", "Add", <<"d", "Multiply", "e">>>>, "Less", "f">>>>>>

\* `a = b = c` has been parsed, and so has `a * b + c`.
C3_Witness ==
    /\ pc = "returned"
    /\ input.names \in PrecedenceInputs
    /\ \/ input.names[9] = "Assign" /\ input.names[11] = "Assign"
             /\ C3_Parsed = C3_Right("Assign", "Assign")
       \/ input.names[9] = "Star" /\ input.names[11] = "Plus"
             /\ C3_Parsed = C3_Left("Star", "Plus")

\* The token at index i of the input, with its span (None past the end).
TokenAt(i) == IF i \in 1..Len(input.names) THEN Spanned(input, i) ELSE None

MissedSemicolon == "maybe you missed a ';'?"

\* What the call of expect_semicolon recorded as e did, against C4; with
\* silent, a next token that is the lexer's error token emits nothing.
C4_Case(e, silent) ==
    LET next == TokenAt(e.pos0)
        prev == TokenAt(e.pos0 - 1)
        err  == p.errors[e.nerr1]
        later == next # None /\ next.span.start.line > prev.span.end.line
        emitted == IF silent /\ next # None /\ next.t = "Error"
                   THEN e.nerr1 = e.nerr0
                   ELSE /\ e.nerr1 = e.nerr0 + 1
                        /\ IF later
                           THEN /\ Len(err.notes) = 2
                                /\ err.notes[2] =
                                     [span |-> span_to(prev.span.end, forward(prev.span.end, 1)),
                                      msg |-> MissedSemicolon]
                           ELSE \A n \in DOMAIN err.notes : err.notes[n].msg # MissedSemicolon
    IN IF next # None /\ next.t = "Semicolon"
       THEN e.ok /\ e.pos1 = e.pos0 + 1 /\ e.nerr1 = e.nerr0
       ELSE /\ prev # None
            /\ e.pos1 = e.pos0
            /\ e.ok = later
            /\ emitted

\* C4 (amended): expect_semicolon consumes a `;` silently and succeeds;
\* before a token of a later line it reports the error with the note
\* "maybe you missed a `;`?" on the column after the previous token,
\* succeeds and consumes nothing; on the same line or at the end of input
\* it reports the error without that note and fails; but when the next
\* token is the lexer's error token nothing is reported in either case.
C4_ExpectSemicolon ==
    \A i \in LogOf("expect_semicolon") : C4_Case(p.log[i], TRUE)

\* C4 as claimed: an error is emitted whenever the next token is not `;`.
C4_AsClaimed ==
    \A i \in LogOf("expect_semicolon") : C4_Case(p.log[i], FALSE)

\* The soft case happened: an error with the note, success, nothing consumed.
C4_Witness ==
    \E i \in LogOf("expect_semicolon") :
        LET e == p.log[i] IN
        /\ e.ok /\ e.pos1 = e.pos0 /\ e.nerr1 = e.nerr0 + 1
        /\ p.errors[e.nerr1].notes[2].msg = MissedSemicolon

\* `fn f() -> i32 { return 1` on line 1 and `}` on line 2.
C5_Scenario == input = [names |-> SeedMissingSemicolon, brk |-> 9]

\* The function f of the scenario, its body holding Return(1).
C5_ReturnKept ==
    /\ program.structs = <<>>
    /\ Len(program.functions) = 1
    /\ program.functions[1].name.name.value = "f"
    /\ program.functions[1].body # None
    /\ program.functions[1].body.stmt = "Block"
    /\ Len(program.functions[1].body.statements) = 1
    /\ LET s == program.functions[1].body.statements[1] IN
       /\ s.stmt = "Return"
       /\ s.value.expr = "Literal"
       /\ s.value.literal = [type |-> "Number", value |-> "1"]

C5_OneDiagnostic ==
    /\ Len(p.errors) = 1
    /\ p.errors[1].message.got = "RightBrace"
    /\ p.errors[1].span = TokenAt(10).span
    /\ Len(p.errors[1].notes) = 2
    /\ p.errors[1].notes[2] =
         [span |-> span_to(TokenAt(9).span.end, forward(TokenAt(9).span.end, 1)),
          msg |-> MissedSemicolon]

\* The expectations rendered in a message, as a set.
Rendered(err) == {err.message.expected.items[k] : k \in DOMAIN err.message.expected.items}

\* C5 (amended): in the scenario parse reports exactly one diagnostic, on
\* `}`, with the secondary note "maybe you missed a `;`?" just after `1`;
\* its expected list holds `;` and `operator` and otherwise only infix
\* tokens that are not operators; the Program contains f with Return(1).
C5_MissingSemicolon ==
    (pc = "returned" /\ C5_Scenario) =>
        /\ C5_OneDiagnostic
        /\ {"Semicolon", "operator"} \subseteq Rendered(p.errors[1])
        /\ Rendered(p.errors[1]) \ {"Semicolon", "operator"}
              \subseteq {k \in DOMAIN InfixParsers : ~is_operator(k)}
        /\ C5_ReturnKept

\* C5 as claimed: the message is "expected `;`, got `}`".
C5_AsClaimed ==
    (pc = "returned" /\ C5_Scenario) =>
        /\ C5_OneDiagnostic
        /\ p.errors[1].message.expected = ExpectedMessage(<<"Semicolon">>)
        /\ C5_ReturnKept

C5_Witness ==
    /\ pc = "returned"
    /\ C5_Scenario
    /\ Len(p.errors) = 1
    /\ "operator" \in Rendered(p.errors[1])

\* The calls of emit_error that reported an error.
C6_Emitted == {i \in LogOf("emit_error") : p.log[i].nerr1 = p.log[i].nerr0 + 1}

\* The expectations of E that stay: with keep, the tokens that can start an
\* expression (are operators) stay; without, they are the ones dropped.
C6_Stay(E, keep) ==
    {x \in E :
        IsTokenExpectation(x) =>
            /\ "expression" \in E => (can_start_expression(x) <=> keep)
            /\ "operator" \in E => (is_operator(x) <=> keep)}

C6_Sorted(items) ==
    \A k \in 1..(Len(items) - 1) :
        StrLess(ExpectationText[items[k]], ExpectationText[items[k + 1]])

\* C6 (amended): when the expected-set contains Expression, emit_error
\* drops every Token(kind) that can start an expression and keeps those
\* that cannot; when it contains Operator, it drops every Token(kind) that
\* is an operator and keeps those that are not; Expression and Operator are
\* never dropped; what remains is rendered in lexicographic order.
C6_Pruning ==
    \A i \in C6_Emitted :
        LET e == p.log[i] IN
        /\ Rendered(p.errors[e.nerr1]) = C6_Stay(e.extra.expected, FALSE)
        /\ Len(p.errors[e.nerr1].message.expected.items)
              = Cardinality(C6_Stay(e.extra.expected, FALSE))
        /\ C6_Sorted(p.errors[e.nerr1].message.expected.items)

\* C6 as claimed: the tokens that cannot start an expression, and those
\* that are not operators, are the ones dropped.
C6_AsClaimed ==
    \A i \in C6_Emitted :
        LET e == p.log[i] IN
        /\ Rendered(p.errors[e.nerr1]) = C6_Stay(e.extra.expected, TRUE)
        /\ C6_Sorted(p.errors[e.nerr1].message.expected.items)

\* An error was reported from a set with Expression and a token that can
\* start an expression, and one from a set with Operator and operators.
C6_Witness ==
    /\ \E i \in C6_Emitted :
          /\ "expression" \in p.log[i].extra.expected
          /\ \E x \in p.log[i].extra.expected :
                IsTokenExpectation(x) /\ can_start_expression(x)
          /\ \E x \in p.log[i].extra.expected :
                IsTokenExpectation(x) /\ ~can_start_expression(x)
    /\ \E i \in C6_Emitted :
          /\ "operator" \in p.log[i].extra.expected
          /\ "Semicolon" \in p.log[i].extra.expected
          /\ Len(p.errors[p.log[i].nerr1].message.expected.items) > 2

\* The calls of expect_closing that did not find the closing token.
C7_Unclosed == {i \in LogOf("expect_closing") : ~p.log[i].ok}

Count(tok, from, to) == Cardinality({k \in from..to : input.names[k] = tok})

\* The index of the `(` still open before the token at index pos.
C7_Opener(pos) ==
    CHOOSE j \in 0..(pos - 1) :
        /\ j > 0 => /\ input.names[j] = "LeftParen"
                    /\ Count("LeftParen", j + 1, pos - 1) = Count("RightParen", j + 1, pos - 1)
        /\ \A k \in (j + 1)..(pos - 1) :
              ~ /\ input.names[k] = "LeftParen"
                /\ Count("LeftParen", k + 1, pos - 1) = Count("RightParen", k + 1, pos - 1)

\* The span emit_error reports at: the next token, or past the last one.
C7_Here(pos) ==
    IF TokenAt(pos) # None THEN TokenAt(pos).span
    ELSE span_to(forward(TokenAt(pos - 1).span.end, 1), forward(TokenAt(pos - 1).span.end, 2))

\* expect_closing recorded as e reported the unclosed delimiter; with
\* silent, nothing is reported before the lexer's error token.
C7_Case(e, silent) ==
    /\ e.pos1 = e.pos0
    /\ C7_Opener(e.pos0) > 0
    /\ e.extra.opener = TokenAt(C7_Opener(e.pos0)).span
    /\ IF silent /\ TokenAt(e.pos0) # None /\ TokenAt(e.pos0).t = "Error"
       THEN e.nerr1 = e.nerr0
       ELSE /\ e.nerr1 = e.nerr0 + 1
            /\ p.errors[e.nerr1].span = C7_Here(e.pos0)
            /\ Len(p.errors[e.nerr1].notes) = 2
            /\ p.errors[e.nerr1].notes[2] =
                 [span |-> TokenAt(C7_Opener(e.pos0)).span, msg |-> "unclosed delimiter"]

\* `fn f() -> i32 { g(1, 2 }`: one diagnostic, on `}`, its note on the `(`
\* of `g(`; synchronize_statement stops at `}`; f is in the Program.
C7_Scenario ==
    (pc = "returned" /\ input = [names |-> SeedUnclosed, brk |-> 0]) =>
        /\ Len(p.errors) = 1
        /\ p.errors[1].span = TokenAt(13).span
        /\ p.errors[1].notes[2] = [span |-> TokenAt(9).span, msg |-> "unclosed delimiter"]
        /\ \E i \in LogOf("synchronize_statement") :
              p.log[i].ok /\ p.log[i].pos1 = 13
        /\ Len(program.functions) = 1
        /\ program.functions[1].name.name.value = "f"

\* C7 (amended): when a parenthesised expression is not followed by `)`,
\* or a call argument by neither `)` nor `,`, the handler fails and exactly
\* one error is emitted, on the next token (or the end-of-input span), with
\* the secondary note "unclosed delimiter" on the matching `(`; but before
\* the lexer's error token the handler fails without emitting anything.
\* The scenario `fn f() -> i32 { g(1, 2 }` is as described.
C7_UnclosedDelimiter ==
    /\ \A i \in C7_Unclosed : C7_Case(p.log[i], TRUE)
    /\ C7_Scenario

\* C7 as claimed: an error is emitted at every unclosed delimiter.
C7_AsClaimed ==
    /\ \A i \in C7_Unclosed : C7_Case(p.log[i], FALSE)
    /\ C7_Scenario

\* The scenario has been parsed, its `(` reported as unclosed.
C7_Witness ==
    /\ pc = "returned"
    /\ input = [names |-> SeedUnclosed, brk |-> 0]
    /\ C7_Unclosed # {}
    /\ Len(p.errors) = 1

-----------------------------------------------------------------------------
(* C8: item-level synchronization                                          *)

\* Token k is one synchronize_item stops at: `struct`, `extern`, `fn` followed
\* by an identifier, or the end of the input.
C8_Stop(k) ==
    \/ k > Len(input.names)
    \/ input.names[k] \in {"Struct", "Extern"}
    \/ /\ input.names[k] = "Fn"
       /\ k + 1 <= Len(input.names)
       /\ Tok(input.names[k + 1]).t = "Ident"

\* C8: every call of synchronize_item returns with the cursor on the first
\* position, at or after the one it was called at, whose token is `struct`,
\* `extern`, `fn` followed by an identifier, or the end of the input; that
\* token is left unconsumed, every token before it (a `fn` not followed by an
\* identifier included) is consumed, one per iteration, and no diagnostic is
\* emitted meanwhile.
C8_SynchronizeItem ==
    /\ \A i \in LogOf("synchronize_item") :
          LET e == p.log[i] IN
          /\ e.pos0 <= e.pos1
          /\ C8_Stop(e.pos1)
          /\ \A k \in e.pos0..(e.pos1 - 1) : ~C8_Stop(k)
          /\ e.nerr1 = e.nerr0
    /\ \A i \in LogOf("iteration") :
          LET e == p.log[i] IN
          e.loop = "synchronize_item" =>
              /\ e.exits <=> C8_Stop(e.pos0)
              /\ e.pos1 = IF e.exits THEN e.pos0 ELSE e.pos0 + 1

\* synchronize_item has skipped a `fn` that no identifier follows and stopped
\* at a `fn` that one follows.
C8_Witness ==
    \E i \in LogOf("synchronize_item") :
        LET e == p.log[i] IN
        /\ \E k \in e.pos0..(e.pos1 - 1) : input.names[k] = "Fn"
        /\ e.pos1 <= Len(input.names)
        /\ input.names[e.pos1] = "Fn"

-----------------------------------------------------------------------------
(* C9: statement-level synchronization                                     *)

\* Token k is one synchronize_statement stops at with success, unconsumed.
C9_StopOk(k) ==
    /\ k <= Len(input.names)
    /\ input.names[k] \in {"If", "Loop", "While", "Break", "Continue", "Let",
                           "Return", "LeftBrace", "RightBrace"}

\* Token k is one synchronize_statement stops at with failure, unconsumed.
C9_StopErr(k) ==
    \/ k > Len(input.names)
    \/ input.names[k] = "Struct"
    \/ /\ input.names[k] = "Fn"
       /\ k + 1 <= Len(input.names)
       /\ Tok(input.names[k + 1]).t = "Ident"

C9_Semicolon(k) == k <= Len(input.names) /\ input.names[k] = "Semicolon"

\* The calls of synchronize_statement: the tokens before the stopping one are
\* skipped without a diagnostic, and the result is as the stopping token says.
C9_Synchronize ==
    \A i \in LogOf("synchronize_statement") :
        LET e == p.log[i]
            k == IF e.ok /\ e.pos1 > e.pos0 /\ C9_Semicolon(e.pos1 - 1)
                 THEN e.pos1 - 1 ELSE e.pos1
        IN  /\ e.pos0 <= k
            /\ \A j \in e.pos0..(k - 1) :
                  ~(C9_StopOk(j) \/ C9_StopErr(j) \/ C9_Semicolon(j))
            /\ e.nerr1 = e.nerr0
            /\ IF C9_StopOk(k) THEN e.ok /\ e.pos1 = k
               ELSE IF C9_StopErr(k) THEN ~e.ok /\ e.pos1 = k
               ELSE C9_Semicolon(k) /\ e.ok /\ e.pos1 = k + 1

\* The spans of the statements of a block, nested ones included.
RECURSIVE C9_Statements(_)
C9_Statements(s) ==
    IF s = None THEN {}
    ELSE {s.span} \cup
         CASE s.stmt = "Block" ->
                  UNION {C9_Statements(s.statements[i]) : i \in DOMAIN s.statements}
           [] s.stmt = "If" -> C9_Statements(s.then) \cup C9_Statements(s.else_)
           [] s.stmt \in {"Loop", "While"} -> C9_Statements(s.body)
           [] OTHER -> {}

\* The span lies within the tokens from..to.
C9_Within(span, from, to) ==
    /\ from <= to
    /\ PosLeq(TokenAt(from).span.start, span.start)
    /\ PosLeq(span.end, TokenAt(to).span.end)

\* The functions of the Program that have a body.
C9_Bodies ==
    {program.functions[i].body : i \in DOMAIN program.functions} \ {None}

\* The iterations of parse_block that went round again: each is one statement,
\* parsed or failed and synchronized.
C9_Iterations ==
    {i \in LogOf("iteration") : p.log[i].loop = "parse_block" /\ ~p.log[i].exits}

\* The iteration's statement failed and synchronize_statement recovered: the
\* call of synchronize_statement is the last thing the iteration did.
C9_Failed(i) ==
    /\ i > 1
    /\ p.log[i - 1].ev = "synchronize_statement"
    /\ p.log[i - 1].ok
    /\ p.log[i].pos0 <= p.log[i - 1].pos0
    /\ p.log[i - 1].pos1 = p.log[i].pos1

\* The iteration lies within a statement that failed.
C9_Dropped(i) ==
    \E f \in C9_Iterations :
        /\ C9_Failed(f)
        /\ p.log[f].pos0 <= p.log[i].pos0
        /\ p.log[i].pos1 <= p.log[f].pos1

\* The block reaches over the tokens from..to.
C9_Covers(body, from, to) ==
    /\ 1 <= from /\ from <= to /\ to <= Len(input.names)
    /\ PosLeq(body.span.start, TokenAt(from).span.start)
    /\ PosLeq(TokenAt(to).span.end, body.span.end)

\* A failed synchronization keeps the enclosing function out of the Program:
\* no body in the Program reaches over the token the failed statement ended at.
C9_Propagated ==
    \A j \in LogOf("synchronize_statement") :
        ~p.log[j].ok =>
            \A body \in C9_Bodies :
                ~C9_Covers(body, p.log[j].pos0 - 1, p.log[j].pos0 - 1)

\* In the blocks of the Program, a statement is there exactly if neither it
\* nor a statement around it failed.
C9_Kept ==
    \A body \in C9_Bodies :
        \A i \in C9_Iterations :
            LET e == p.log[i] IN
            C9_Covers(body, e.pos0, e.pos1 - 1)
            => ( (\E sp \in C9_Statements(body) : C9_Within(sp, e.pos0, e.pos1 - 1))
                 <=> ~C9_Dropped(i) )

\* C9: synchronize_statement skips tokens, without reporting anything, up to
\* the first that is `if`, `loop`, `while`, `break`, `continue`, `let`,
\* `return`, `{` or `}` (success, token unconsumed), `;` (success, token
\* consumed), or `fn` followed by an identifier, `struct` or the end of the
\* input (failure, token unconsumed).  After a failure no function of the
\* Program encloses the place; after a success the block has the statements
\* parsed before and after the failed one, and not the failed one.
C9_SynchronizeStatement == C9_Synchronize /\ C9_Propagated /\ C9_Kept

\* A function of the Program has a block where a statement was parsed, the
\* next failed and was synchronized past, and a third was parsed.
C9_Witness ==
    \E body \in C9_Bodies :
        \E f, a, b \in C9_Iterations :
            /\ C9_Failed(f) /\ ~C9_Dropped(a) /\ ~C9_Dropped(b)
            /\ p.log[a].pos1 = p.log[f].pos0
            /\ p.log[f].pos1 = p.log[b].pos0
            /\ C9_Covers(body, p.log[a].pos0, p.log[b].pos1 - 1)
            /\ \E sa, sb \in C9_Statements(body) :
                  /\ C9_Within(sa, p.log[a].pos0, p.log[a].pos1 - 1)
                  /\ C9_Within(sb, p.log[b].pos0, p.log[b].pos1 - 1)

-----------------------------------------------------------------------------
(* C10: the notes of an error                                              *)

\* The calls of emit_error that reported an error.
C10_Emitted == {i \in LogOf("emit_error") : p.log[i].nerr1 = p.log[i].nerr0 + 1}

\* The note every error starts with: "unexpected <got>" at the next token.
C10_Primary(pos) ==
    [span |-> C7_Here(pos),
     msg  |-> <<"unexpected",
                IF TokenAt(pos) = None THEN "end of input" ELSE TokenAt(pos).t>>]

\* The previous token ends on a line before the one the next token starts on.
C10_OffTheEnd(pos) ==
    /\ TokenAt(pos - 1) # None
    /\ TokenAt(pos - 1).span.end.line < C7_Here(pos).start.line

\* The one-column span after the previous token.
C10_HintSpan(pos) ==
    [start |-> [line   |-> TokenAt(pos - 1).span.end.line,
                column |-> TokenAt(pos - 1).span.end.column + 1],
     end   |-> [line   |-> TokenAt(pos - 1).span.end.line,
                column |-> TokenAt(pos - 1).span.end.column + 2]]

-----------------------------------------------------------------------------
(* C11: diagnostics in source order                                        *)

\* The index of the token a primary span lies on; one past the last token
\* for the span reported at the end of the input.
C11_Index(span) ==
    CHOOSE k \in 1..(Len(input.names) + 1) : C7_Here(k) = span

\* C11: in the sequence of reported errors the token index of the primary
\* span never decreases, and when an error is reported its index is past
\* every token consumed until then (those of the constructs built so far
\* among them).
C11_SourceOrder ==
    /\ \A j, k \in DOMAIN p.errors :
          j < k => C11_Index(p.errors[j].notes[1].span)
                     <= C11_Index(p.errors[k].notes[1].span)
    /\ \A i \in LogOf("emit_error") :
          p.log[i].nerr1 = p.log[i].nerr0 + 1 =>
              LET at == C11_Index(p.errors[p.log[i].nerr1].notes[1].span) IN
              \A h \in 1..(i - 1) :
                  p.log[h].pos0 - 1 < at /\ p.log[h].pos1 - 1 < at

\* Two errors were reported at different tokens, the second after an item
\* had been added to the Program.
C11_Witness ==
    /\ Len(p.errors) >= 2
    /\ C11_Index(p.errors[1].notes[1].span) < C11_Index(p.errors[2].notes[1].span)
    /\ Len(program.structs) + Len(program.functions) > 0
    /\ \E i \in LogOf("emit_error") : \E h \in 1..(i - 1) :
          /\ p.log[i].nerr1 = 2 /\ p.log[i].nerr0 = 1
          /\ p.log[h].ev = "iteration" /\ p.log[h].loop = "parse_block"
          /\ ~p.log[h].exits /\ ~C9_Failed(h)

-----------------------------------------------------------------------------
(* C12: errors the lexer has reported                                      *)

\* The next token at index pos is the lexer's Error token.
C12_AtError(pos) == TokenAt(pos) # None /\ TokenAt(pos).t = "Error"

\* The previous token ends on a line before the one token pos starts on.
C12_LineBreak(pos) ==
    /\ TokenAt(pos - 1) # None /\ TokenAt(pos) # None
    /\ TokenAt(pos - 1).span.end.line < TokenAt(pos).span.start.line

\* C12: a call of emit_error reports nothing exactly when the next token is
\* the lexer's Error token, and consumes nothing; whatever the token, expect,
\* consume_ident, expect_closing and the prefix-handler lookup then fail,
\* expect_semicolon succeeds exactly across a line break, and the program
\* loop goes on to item-level synchronization.
C12_LexerForwarded ==
    \A i \in LogOf("emit_error") :
        LET e == p.log[i] IN
        /\ e.pos1 = e.pos0
        /\ IF C12_AtError(e.pos0) THEN e.nerr1 = e.nerr0 ELSE e.nerr1 = e.nerr0 + 1
        /\ i < Len(p.log)
        /\ LET c == p.log[i + 1] IN
           CASE c.ev \in {"expect", "consume_ident", "expect_closing", "pratt_parse"} ->
                    ~c.ok /\ c.pos1 = e.pos0 /\ c.nerr1 = e.nerr1
             [] c.ev = "expect_semicolon" ->
                    /\ c.ok <=> C12_LineBreak(e.pos0)
                    /\ c.pos1 = e.pos0 /\ c.nerr1 = e.nerr1
             [] c.ev = "iteration" ->
                    c.loop = "synchronize_item" /\ c.pos0 = e.pos0
             [] c.ev = "consume" ->
                    /\ c.pos0 = e.pos0
                    /\ p.log[i + 2].ev = "iteration"
                    /\ p.log[i + 2].loop = "synchronize_item"
                    /\ p.log[i + 2].pos0 = e.pos0
             [] OTHER -> FALSE

\* The parse has returned, emit_error was called before the Error token from
\* expect, and the reporter is empty.
C12_Witness ==
    /\ pc = "returned"
    /\ p.errors = <<>>
    /\ \E i \in LogOf("emit_error") :
          /\ C12_AtError(p.log[i].pos0)
          /\ i < Len(p.log)
          /\ p.log[i + 1].ev = "expect"

-----------------------------------------------------------------------------
(* C13: span coverage                                                      *)

\* A node of the tree: its kind, its span and the spans of its children.
C13_Node(kind, span, kids) == [node |-> kind, span |-> span, kids |-> kids]

C13_Spans(seq) == {seq[i].span : i \in DOMAIN seq}

\* The nodes of a type, of an expression and of a statement.
RECURSIVE C13_Type(_)
C13_Type(t) ==
    CASE t.type = "Concrete" ->
             {C13_Node(IF t.params = <<>> THEN "Concrete" ELSE "ConcreteOf", t.span,
                       {t.name.span} \cup C13_Spans(t.params))}
             \cup UNION {C13_Type(t.params[i]) : i \in DOMAIN t.params}
      [] t.type = "Pointer" ->
             {C13_Node("Pointer", t.span, {t.of.span})} \cup C13_Type(t.of)
      [] t.type = "Function" ->
             {C13_Node("FunctionType", t.span,
                       C13_Spans(t.params) \cup {t.return_type.span})}
             \cup UNION {C13_Type(t.params[i]) : i \in DOMAIN t.params}
             \cup C13_Type(t.return_type)
      [] OTHER -> {C13_Node("Builtin", t.span, {})}

RECURSIVE C13_Expr(_)
C13_Expr(e) ==
    CASE e.expr = "Literal" -> {C13_Node("Literal", e.span, {})}
      [] e.expr = "Name" ->
             {C13_Node(IF e.type_params = <<>> THEN "Name" ELSE "NameOf", e.span,
                       {e.ident.span} \cup C13_Spans(e.type_params))}
             \cup UNION {C13_Type(e.type_params[i]) : i \in DOMAIN e.type_params}
      [] e.expr = "Unary" ->
             {C13_Node("Unary", e.span, {e.op.span, e.operand.span})}
             \cup C13_Expr(e.operand)
      [] e.expr = "Binary" ->
             {C13_Node("Binary", e.span, {e.lhs.span, e.op.span, e.rhs.span})}
             \cup C13_Expr(e.lhs) \cup C13_Expr(e.rhs)
      [] e.expr = "Call" ->
             {C13_Node("Call", e.span,
                       {e.callee.span}
                       \cup {e.params[i].value.span : i \in DOMAIN e.params}
                       \cup {e.params[i].name.span :
                               i \in {j \in DOMAIN e.params : e.params[j].param = "Named"}})}
             \cup C13_Expr(e.callee)
             \cup UNION {C13_Expr(e.params[i].value) : i \in DOMAIN e.params}
      [] e.expr = "Field" ->
             {C13_Node("Field", e.span, {e.value.span, e.field.span})}
             \cup C13_Expr(e.value)

RECURSIVE C13_Stmt(_)
C13_Stmt(s) ==
    CASE s.stmt = "If" ->
             {C13_Node("If", s.span,
                       {s.cond.span, s.then.span}
                       \cup (IF s.else_ = None THEN {} ELSE {s.else_.span}))}
             \cup C13_Expr(s.cond) \cup C13_Stmt(s.then)
             \cup (IF s.else_ = None THEN {} ELSE C13_Stmt(s.else_))
      [] s.stmt = "Loop" ->
             {C13_Node("Loop", s.span, {s.body.span})} \cup C13_Stmt(s.body)
      [] s.stmt = "While" ->
             {C13_Node("While", s.span, {s.cond.span, s.body.span})}
             \cup C13_Expr(s.cond) \cup C13_Stmt(s.body)
      [] s.stmt = "Return" ->
             {C13_Node("Return", s.span, {s.value.span})} \cup C13_Expr(s.value)
      [] s.stmt = "Let" ->
             {C13_Node("Let", s.span,
                       {s.name.span, s.value.span}
                       \cup (IF s.typ = None THEN {} ELSE {s.typ.span}))}
             \cup C13_Expr(s.value)
             \cup (IF s.typ = None THEN {} ELSE C13_Type(s.typ))
      [] s.stmt = "Expr" ->
             {C13_Node("Expr", s.span, {s.expr.span})} \cup C13_Expr(s.expr)
      [] s.stmt = "Block" ->
             {C13_Node("Block", s.span, C13_Spans(s.statements))}
             \cup UNION {C13_Stmt(s.statements[i]) : i \in DOMAIN s.statements}
      [] OTHER -> {C13_Node(s.stmt, s.span, {})}

\* The nodes of the Program: the types of fields, parameters and results, and
\* the bodies of the functions.
C13_Nodes ==
    UNION {UNION {C13_Type(program.structs[i].fields[j].typ) :
                     j \in DOMAIN program.structs[i].fields} :
              i \in DOMAIN program.structs}
    \cup UNION {UNION {C13_Type(program.functions[i].params[j].typ) :
                          j \in DOMAIN program.functions[i].params} :
                   i \in DOMAIN program.functions}
    \cup UNION {C13_Type(program.functions[i].return_type) :
                   i \in DOMAIN program.functions}
    \cup UNION {IF program.functions[i].body = None THEN {}
                ELSE C13_Stmt(program.functions[i].body) :
                   i \in DOMAIN program.functions}

\* The merge of a set of spans: from the first start to the last end.
C13_Merge(spans) ==
    [start |-> (CHOOSE a \in spans : \A b \in spans : PosLeq(a.start, b.start)).start,
     end   |-> (CHOOSE a \in spans : \A b \in spans : PosLeq(b.end, a.end)).end]

C13_Inside(inner, outer) ==
    PosLeq(outer.start, inner.start) /\ PosLeq(inner.end, outer.end)

\* The token that starts, or ends, at a position ("" if none does).
C13_TokenFrom(pos) ==
    IF \E k \in DOMAIN input.names : TokenAt(k).span.start = pos
    THEN input.names[CHOOSE k \in DOMAIN input.names : TokenAt(k).span.start = pos]
    ELSE ""

C13_TokenTo(pos) ==
    IF \E k \in DOMAIN input.names : TokenAt(k).span.end = pos
    THEN input.names[CHOOSE k \in DOMAIN input.names : TokenAt(k).span.end = pos]
    ELSE ""

C13_Leaves == {"Literal", "Builtin", "Break", "Continue"}

\* The token a node's span starts at, where that is not its first child.
C13_Opener ==
    [Pointer |-> "Star", FunctionType |-> "Fn", If |-> "If", Loop |-> "Loop",
     While |-> "While", Return |-> "Return", Let |-> "Let", Block |-> "LeftBrace"]

\* The token a node's span ends at, where that is not its last child.
C13_Closer ==
    [Call |-> "RightParen", NameOf |-> "Greater", ConcreteOf |-> "Greater",
     Block |-> "RightBrace"]

\* The span of node n is the one its production builds.
C13_Law(n) ==
    /\ \A kid \in n.kids : C13_Inside(kid, n.span)
    /\ IF n.node \in C13_Leaves
       THEN \E k \in DOMAIN input.names : TokenAt(k).span = n.span
       ELSE /\ IF n.node \in DOMAIN C13_Opener
               THEN C13_TokenFrom(n.span.start) = C13_Opener[n.node]
               ELSE n.span.start = C13_Merge(n.kids).start
            /\ IF n.node \in DOMAIN C13_Closer
               THEN C13_TokenTo(n.span.end) = C13_Closer[n.node]
               ELSE IF n.node \in {"Return", "Let"}
                    THEN \/ C13_TokenTo(n.span.end) = "Semicolon"
                         \/ n.span.end = C13_Merge(n.kids).end
                    ELSE n.span.end = C13_Merge(n.kids).end

-----------------------------------------------------------------------------
(* C14: call arguments                                                     *)

\* The calls within an expression and within a statement.
RECURSIVE C14_ExprCalls(_)
C14_ExprCalls(e) ==
    CASE e.expr = "Unary" -> C14_ExprCalls(e.operand)
      [] e.expr = "Binary" -> C14_ExprCalls(e.lhs) \cup C14_ExprCalls(e.rhs)
      [] e.expr = "Field" -> C14_ExprCalls(e.value)
      [] e.expr = "Call" ->
             {e} \cup C14_ExprCalls(e.callee)
             \cup UNION {C14_ExprCalls(e.params[i].value) : i \in DOMAIN e.params}
      [] OTHER -> {}

RECURSIVE C14_StmtCalls(_)
C14_StmtCalls(s) ==
    CASE s.stmt = "If" ->
             C14_ExprCalls(s.cond) \cup C14_StmtCalls(s.then)
             \cup (IF s.else_ = None THEN {} ELSE C14_StmtCalls(s.else_))
      [] s.stmt = "Loop" -> C14_StmtCalls(s.body)
      [] s.stmt = "While" -> C14_ExprCalls(s.cond) \cup C14_StmtCalls(s.body)
      [] s.stmt \in {"Return", "Let"} -> C14_ExprCalls(s.value)
      [] s.stmt = "Expr" -> C14_ExprCalls(s.expr)
      [] s.stmt = "Block" ->
             UNION {C14_StmtCalls(s.statements[i]) : i \in DOMAIN s.statements}
      [] OTHER -> {}

\* The calls of the Program.
C14_Calls ==
    UNION {IF program.functions[i].body = None THEN {}
           ELSE C14_StmtCalls(program.functions[i].body) :
              i \in DOMAIN program.functions}

\* The index of the token that starts, or ends, at a position.
C14_From(pos) == CHOOSE k \in DOMAIN input.names : TokenAt(k).span.start = pos

C14_To(pos) == CHOOSE k \in DOMAIN input.names : TokenAt(k).span.end = pos

\* The first token of an argument, but for parentheses around its value.
C14_First(param) ==
    IF param.param = "Named" THEN C14_From(param.name.span.start)
    ELSE C14_From(param.value.span.start)

\* The tokens from..to are closing parentheses, then tok, then opening ones.
C14_Separated(from, to, tok) ==
    \E k \in from..to :
        /\ input.names[k] = tok
        /\ \A j \in from..(k - 1) : input.names[j] = "RightParen"
        /\ \A j \in (k + 1)..to : input.names[j] = "LeftParen"

\* The arguments of call c are as the tokens between its parentheses say.
C14_Arguments(c) ==
    /\ \A i \in DOMAIN c.params :
          LET param == c.params[i]
              k     == C14_First(param)
              colon == Tok(input.names[k]).t = "Ident" /\ input.names[k + 1] = "Colon"
          IN  /\ param.param \in {"Named", "Unnamed"}
              /\ param.param = "Named" <=> colon
              /\ param.param = "Named" =>
                    /\ input.names[k - 1] \in {"LeftParen", "Comma"}
                    /\ param.name.value = input.names[k]
                    /\ k + 2 <= C14_From(param.value.span.start)
                    /\ \A j \in (k + 2)..(C14_From(param.value.span.start) - 1) :
                          input.names[j] = "LeftParen"
    /\ \A i \in DOMAIN c.params :
          IF i < Len(c.params)
          THEN C14_Separated(C14_To(c.params[i].value.span.end) + 1,
                             C14_First(c.params[i + 1]) - 1, "Comma")
          ELSE /\ input.names[C14_To(c.span.end)] = "RightParen"
               /\ \A j \in (C14_To(c.params[i].value.span.end) + 1)..C14_To(c.span.end) :
                     \/ input.names[j] = "RightParen"
                     \/ j = C14_To(c.span.end) - 1 /\ input.names[j] = "Comma"
    /\ c.params = <<>> =>
          /\ input.names[C14_To(c.span.end)] = "RightParen"
          /\ input.names[C14_To(c.span.end) - 1] = "LeftParen"

C14_Scenario == input = [names |-> SeedNamedArguments, brk |-> 0]

\* The Program of `fn f() -> i32 { foo(x, name: 1 + 2, y); }`.
C14_Parsed ==
    /\ p.errors = <<>>
    /\ Len(program.functions) = 1
    /\ program.functions[1].body # None
    /\ Len(program.functions[1].body.statements) = 1
    /\ LET s == program.functions[1].body.statements[1] IN
       /\ s.stmt = "Expr" /\ s.expr.expr = "Call"
       /\ s.expr.callee.expr = "Name" /\ s.expr.callee.ident.value = "foo"
       /\ Len(s.expr.params) = 3
       /\ LET a == s.expr.params IN
          /\ a[1].param = "Unnamed"
          /\ a[1].value.expr = "Name" /\ a[1].value.ident.value = "x"
          /\ a[2].param = "Named" /\ a[2].name.value = "name"
          /\ a[2].value.expr = "Binary" /\ a[2].value.op.value = "Add"
          /\ a[2].value.lhs.expr = "Literal" /\ a[2].value.lhs.literal.value = "1"
          /\ a[2].value.rhs.expr = "Literal" /\ a[2].value.rhs.literal.value = "2"
          /\ a[3].param = "Unnamed"
          /\ a[3].value.expr = "Name" /\ a[3].value.ident.value = "y"

\* C14: in every call of the Program an argument is Named exactly if it
\* begins with an identifier followed by `:`, and Unnamed otherwise; the
\* arguments are in source order, a `,` between each two and `)`, or `,` and
\* `)`, after the last; and `foo(x, name: 1 + 2, y)` is parsed, without a diagnostic, to
\* [Unnamed(Name x), Named(name, Binary(1, +, 2)), Unnamed(Name y)].
C14_CallArguments ==
    /\ \A c \in C14_Calls : C14_Arguments(c)
    /\ C14_Scenario /\ pc = "returned" => C14_Parsed

\* The scenario's program has been parsed.
C14_Witness == C14_Scenario /\ pc = "returned" /\ C14_Parsed

-----------------------------------------------------------------------------
(* C15: the expected-set across consume                                    *)

\* The token consumed at index pos is an identifier after `(` or `,`: the
\* place of an identifier argument of a call.
C15_IdentArgument(pos) ==
    /\ TokenAt(pos) # None /\ TokenAt(pos).t = "Ident"
    /\ pos > 1 /\ input.names[pos - 1] \in {"LeftParen", "Comma"}

\* The last consume recorded before event i (0 if there is none).
C15_LastConsume(i) ==
    IF \E j \in LogOf("consume") : j < i /\ p.log[j].ok
    THEN CHOOSE j \in LogOf("consume") :
             /\ j < i /\ p.log[j].ok
             /\ \A h \in LogOf("consume") : h < i /\ p.log[h].ok => h <= j
    ELSE 0

\* C15: a successful consume leaves as expected-set what was staged in
\* expected2, and expected2 empty; a consume at the end of the input leaves
\* both as they were.  expected2 is empty at every consume but that of an
\* identifier argument of a call, where it is {`:`}, and at every
\* emit_error; so after any other consume the expected-set is empty, and an
\* error holds, of what was there before the last consume, only what had
\* been staged.
C15_ExpectedReset ==
    /\ p.expected2 = {}
    /\ \A i \in LogOf("consume") :
          LET e == p.log[i]
              x == p.log[i].extra
          IN  /\ IF e.ok
                 THEN /\ e.pos1 = e.pos0 + 1
                      /\ x.expected_after = x.expected2
                      /\ x.expected2_after = {}
                 ELSE /\ e.pos1 = e.pos0
                      /\ x.expected_after = x.expected
                      /\ x.expected2_after = x.expected2
              /\ x.expected2 # {} =>
                    e.ok /\ x.expected2 = {"Colon"} /\ C15_IdentArgument(e.pos0)
              /\ e.ok /\ ~C15_IdentArgument(e.pos0) => x.expected_after = {}
    /\ \A i \in LogOf("emit_error") :
          /\ p.log[i].extra.expected2 = {}
          /\ C15_LastConsume(i) # 0 =>
                LET c == p.log[C15_LastConsume(i)] IN
                /\ c.pos1 = p.log[i].pos0
                /\ c.extra.expected_after \subseteq p.log[i].extra.expected
                /\ c.extra.expected_after \subseteq {"Colon"}

\* An identifier argument was consumed with `:` staged and something else
\* expected, and an error was reported after it that expects `:` and nothing
\* of what was expected before the consume except what was recorded again.
C15_Witness ==
    \E i \in LogOf("emit_error") :
        /\ p.log[i].nerr1 = p.log[i].nerr0 + 1
        /\ C15_LastConsume(i) # 0
        /\ LET c == p.log[C15_LastConsume(i)] IN
           /\ c.extra.expected2 = {"Colon"}
           /\ c.extra.expected # {}
           /\ "Colon" \in p.log[i].extra.expected
           /\ ~(c.extra.expected \subseteq p.log[i].extra.expected)

\* The last write of the flag among the first k events (0 if there is none):
\* a consume, or one of the three places that set it.
RECURSIVE C16_WriteUpTo(_)
C16_WriteUpTo(k) ==
    IF k = 0 THEN 0
    ELSE IF p.log[k].ev \in {"consume", "last_line_completed"} THEN k
    ELSE C16_WriteUpTo(k - 1)

\* The last write of the flag before event i.
C16_LastWrite(i) == C16_WriteUpTo(i - 1)

\* The flag was set at position pos, at the given boundary, before event h.
C16_SetAt(pos, boundary, h) ==
    \E b \in LogOf("last_line_completed") :
        /\ b < h
        /\ p.log[b].pos0 = pos
        /\ p.log[b].extra = boundary

\* The names of the fields of the structs of the program.
C16_Fields ==
    UNION {{program.structs[s].fields[k].name : k \in DOMAIN program.structs[s].fields} :
           s \in DOMAIN program.structs}

\* C16: last_line_completed is set at the top of every iteration of the
\* program loop, before every struct field and at the start of every
\* statement, and every consume leaves it false.  So at a consume or an
\* emit_error the flag is true exactly when the last write before it was one
\* of these three, with no consume since; and an error reported there, on the
\* first token of the statement, field or item before anything of it was
\* consumed, has no off-the-end hint: without a helper its only note is the
\* primary one.
C16_LastLineCompleted ==
    /\ \A h \in LogOf("iteration") :
          /\ p.log[h].loop = "parse_program" =>
                C16_SetAt(p.log[h].pos0, "parse_program", h)
          /\ p.log[h].loop = "parse_block" /\ ~p.log[h].exits =>
                C16_SetAt(p.log[h].pos0, "parse_statement", h)
    /\ \A name \in C16_Fields :
          C16_SetAt(C11_Index(name.span), "parse_struct", Len(p.log) + 1)
    /\ \A i \in LogOf("consume") : ~p.log[i].extra.last_line_completed_after
    /\ \A i \in LogOf("consume") \cup LogOf("emit_error") :
          LET w == C16_LastWrite(i) IN
          /\ p.log[i].extra.last_line_completed <=>
                w # 0 /\ p.log[w].ev = "last_line_completed"
          /\ p.log[i].extra.last_line_completed => p.log[w].pos0 = p.log[i].pos0
    /\ \A i \in LogOf("emit_error") :
          /\ p.log[i].extra.last_line_completed
          /\ p.log[i].nerr1 = p.log[i].nerr0 + 1
          /\ p.log[i].extra.helper = None
          => Len(p.errors[p.log[i].nerr1].notes) = 1

\* An error was reported on the first token of a statement, without a helper
\* and with the previous token on an earlier line: the flag was true and the
\* error has the primary note only.
C16_Witness ==
    \E i \in LogOf("emit_error") :
        /\ p.log[i].nerr1 = p.log[i].nerr0 + 1
        /\ p.log[i].extra.helper = None
        /\ p.log[i].extra.last_line_completed
        /\ C16_LastWrite(i) # 0
        /\ p.log[C16_LastWrite(i)].extra = "parse_statement"
        /\ C10_OffTheEnd(p.log[i].pos0)
        /\ Len(p.errors[p.log[i].nerr1].notes) = 1

\* The iterations of the program loop that began at an `extern` that no `fn`
\* follows.
C17_Malformed ==
    {h \in LogOf("iteration") :
        /\ p.log[h].loop = "parse_program"
        /\ TokenAt(p.log[h].pos0) # None
        /\ input.names[p.log[h].pos0] = "Extern"
        /\ \/ TokenAt(p.log[h].pos0 + 1) = None
           \/ input.names[p.log[h].pos0 + 1] # "Fn"}

\* The end of the iteration of the program loop before event h (0 if h lies
\* in the first one).
RECURSIVE C17_Before(_)
C17_Before(h) ==
    IF h = 1 THEN 0
    ELSE IF p.log[h - 1].ev = "iteration" /\ p.log[h - 1].loop = "parse_program"
         THEN h - 1
         ELSE C17_Before(h - 1)

\* Where synchronize_item stops when called at position k.
RECURSIVE C17_SynchronizationPoint(_)
C17_SynchronizationPoint(k) ==
    IF C8_Stop(k) THEN k ELSE C17_SynchronizationPoint(k + 1)

\* The index of the token a function's name was read from.
C17_NameAt(f) == C11_Index(f.name.name.span)

\* C17: an iteration of the program loop that begins at an `extern` not
\* followed by `fn` synchronizes from the token after `extern` and ends at
\* the synchronization point, whose token is `struct`, `extern`, `fn` or the
\* end of the input.  In between parse_function(Extern) is attempted there:
\* consume_ident fails at that position without moving and reports one more
\* error, which expects an identifier; nothing is consumed at or after the
\* synchronization point, and no function of the program has its name among
\* the tokens of the iteration.  A function is Extern only if the two tokens
\* before its name are `extern` and `fn`.
C17_MalformedExtern ==
    /\ \A h \in C17_Malformed :
          LET from == p.log[h].pos0
              at   == C17_SynchronizationPoint(p.log[h].pos0 + 1)
              g    == C17_Before(h)
          IN  /\ p.log[h].pos1 = at
              /\ \/ TokenAt(at) = None
                 \/ input.names[at] \in {"Struct", "Extern", "Fn"}
              /\ \E s \in (g + 1)..(h - 1) :
                    /\ p.log[s].ev = "synchronize_item"
                    /\ p.log[s].pos0 = from + 1
                    /\ p.log[s].pos1 = at
                    /\ \E j \in (s + 1)..(h - 1) :
                          /\ p.log[j].ev = "consume_ident"
                          /\ ~p.log[j].ok
                          /\ p.log[j].pos0 = at /\ p.log[j].pos1 = at
                          /\ p.log[j].nerr1 = p.log[j].nerr0 + 1
                          /\ p.errors[p.log[j].nerr1].span = C7_Here(at)
                          /\ p.log[j - 1].ev = "emit_error"
                          /\ "Ident" \in p.log[j - 1].extra.expected
                          /\ \A c \in (s + 1)..(h - 1) :
                                p.log[c].ev = "consume_ident" => c = j
              /\ \A c \in (g + 1)..(h - 1) :
                    p.log[c].ev = "consume" => p.log[c].ok /\ p.log[c].pos0 < at
              /\ \A k \in DOMAIN program.functions :
                    C17_NameAt(program.functions[k]) \notin from..at
    /\ \A k \in DOMAIN program.functions :
          program.functions[k].fn_type = "Extern" =>
              LET n == C17_NameAt(program.functions[k]) IN
              /\ n > 2
              /\ input.names[n - 1] = "Fn"
              /\ input.names[n - 2] = "Extern"

\* After an `extern` that no `fn` follows, tokens were skipped up to a `fn`,
\* the attempt there failed with a second error, and the next iteration
\* parsed the function at that `fn`, which is not Extern.
C17_Witness ==
    \E h \in C17_Malformed :
        /\ p.log[h].pos1 > p.log[h].pos0 + 1
        /\ TokenAt(p.log[h].pos1) # None
        /\ input.names[p.log[h].pos1] = "Fn"
        /\ Cardinality({j \in (C17_Before(h) + 1)..(h - 1) :
                            /\ p.log[j].ev = "emit_error"
                            /\ p.log[j].nerr1 = p.log[j].nerr0 + 1}) = 2
        /\ \E k \in DOMAIN program.functions :
              /\ C17_NameAt(program.functions[k]) = p.log[h].pos1 + 1
              /\ program.functions[k].fn_type = "Normal"

=============================================================================
